---------------------------- MODULE Spec2Model ----------------------------
(***************************************************************************)
(* A model of the fios-lens collection tools:                              *)
(*   src/scraper/router_scraper.py     (device inventory tool)             *)
(*   src/scraper/bandwidth_scraper.py  (bandwidth tool)                    *)
(* The browser session, the router console and the clock are the          *)
(* environment: every page load, wait and DOM read draws its outcome from  *)
(* what the console can answer.                                            *)
(***************************************************************************)
EXTENDS Integers, Sequences, FiniteSets, TLC

VARIABLES
    pc,           \* position of the running code
    exc,          \* the exception being propagated ("none" when there is none)
    where,        \* the function that raised exc
    inventory,    \* the console's device table (the source the list page renders)
    revealed,     \* how many inventory entries the list page has rendered so far
    stall,        \* consecutive renders that revealed nothing while entries remain
    dom,          \* div.row.wifi-row elements of driver.page_source, in document order
    seen,         \* load_device_rows: the dict `seen`, in insertion order
    stagnation,   \* load_device_rows: the local `stagnation`
    iter,         \* load_device_rows: iterations of `for _ in range(max_scrolls)` run
    scrolls,      \* scroll actions issued by the current load_device_rows call
    captures,     \* capture passes made by the current load_device_rows call
    device_rows,  \* the list load_device_rows returned
    caller,       \* the function that called login()
    logins,       \* login() invocations so far
    loginFailed,  \* history: some login() never saw the password field
    surface,      \* what the browser shows after the last navigation
    attempts,     \* collect_device_details: the parameter `attempts`
    attempt,      \* collect_device_details: the loop variable `attempt`
    loads,        \* detail-page loads issued by the current collect_device_details call
    detail_data,  \* what collect_device_details returned for the current device
    redirected,   \* history: the last detail fetch came back empty on the login surface
                  \* and login() has not been invoked since
    staleFetch,   \* history: a detail fetch was issued while `redirected`
    devIdx,       \* scrape: position of the loop over device_rows
    run_id,       \* scrape / collect: the run identity
    collected_at, \* scrape / collect: the collection instant
    devices_output, \* scrape: the list `devices_output`
    payload,      \* what scrape() / collect() returned
    wan_metrics,  \* collect_bandwidth_usage: the local `wan_metrics`
    lan_devices,  \* collect_bandwidth_usage: the local `lan_devices`
    tool,         \* which tool's main() runs: "devices" or "bandwidth"
    hasPassword,  \* a password came from the config file or --password
    driver,       \* the automation session: "none", "open" or "quit"
    quitCalls,    \* close() calls (driver.quit) made by main()
    exitCode,     \* the exit code of main(), -1 while it runs
    now,          \* the UTC clock, in ticks
    files,        \* the output directory: file name -> content
    output_path,  \* write_output: the file being written
    created,      \* files this run opened for writing
    writes,       \* history: the write_output calls so far, in order
    arg,          \* a function called on its own: the function and its argument
    result,       \* a function called on its own: the values it returned, in order
    spans,        \* the LAN tab: the rows of its span.band-row-text elements, in order
    index,        \* _expand_all_bandwidth_rows: the local `index`
    expand_stagnation, \* _expand_all_bandwidth_rows: the local `stagnation`
    scroll_iterations  \* _expand_all_bandwidth_rows: the local `scroll_iterations`

pageVars   == <<inventory, revealed, stall, dom>>
loaderVars == <<seen, stagnation, iter, scrolls, captures, device_rows>>
loginVars  == <<caller, logins, loginFailed, surface>>
detailVars == <<attempts, attempt, loads, detail_data, redirected, staleFetch>>
scrapeVars == <<devIdx, run_id, collected_at, devices_output, payload>>
bwVars     == <<wan_metrics, lan_devices>>
mainVars   == <<tool, hasPassword, driver, quitCalls, exitCode>>
fsVars     == <<now, files, output_path, created, writes>>
fnVars     == <<arg, result>>
expandVars == <<spans, index, expand_stagnation, scroll_iterations>>
ctlVars    == <<pc, exc, where>>
vars       == <<ctlVars, pageVars, loaderVars, loginVars, detailVars, scrapeVars,
                bwVars, mainVars, fsVars, fnVars, expandVars>>


---------------------------------------------------------------------------
(* The clock.  datetime.utcnow() is read in ticks; strftime with %S keeps  *)
(* whole seconds.                                                          *)

\* clock ticks in one second
TicksPerSecond == 2

\* the last tick the clock reaches
MaxClock == 3

\* strftime("%Y%m%d%H%M%S") / strftime("%Y%m%d-%H%M%S") of the instant t
Seconds(t) == t \div TicksPerSecond

---------------------------------------------------------------------------
(* Bounds of the model. *)

\* devices the console's table may hold in the loader specification: every
\* size up to MaxSmall, and the size MaxMacs that outlasts the scroll cap
MaxMacs == 12
MaxSmall == 3
\* consecutive scrolls the list page may answer without rendering a new entry
MaxStall == 6
\* new entries the list page may render after one scroll
MaxFresh == 1

(* Program constants. *)

\* stagnation threshold of load_device_rows (`if stagnation >= 5`)
StagnationLimit == 5
\* cells a row needs to be a device row (`if len(cells) < 5`)
MinCells == 5

---------------------------------------------------------------------------
(* Texts.  A text is a sequence of tokens: words, " " and "/".  clean_text *)
(* already collapsed runs of whitespace, so a cell text holds single " ".  *)

NoText == <<>>

(* MAC cell texts: the address and the letter case it is written in. *)
Mac(i, up) == [id |-> i, upper |-> up]

\* str.lower() on a MAC text
Lower(m) == [id |-> m.id, upper |-> FALSE]

---------------------------------------------------------------------------
(* The device list page. *)

\* the table entry of device i in the loader specification: every style the
\* page uses occurs, decided by i
PatternEntry(i) ==
    [id         |-> i,
     name       |-> "dev",
     connection |-> IF i % 3 = 0 THEN NoText
                    ELSE IF i % 3 = 1 THEN <<"Wi-Fi", "/", "Online">>
                    ELSE <<"Ethernet", "/", "Offline">>,
     host       |-> "host",
     parental   |-> IF i % 2 = 0 THEN "" ELSE "On",
     upper      |-> (i % 2 = 1),
     href       |-> (i % 4 # 0)]

PatternInventory(n) == [i \in 1..n |-> PatternEntry(i)]

\* the row element the page renders for a table entry; alt is a later
\* rendering of the same device in the other letter case and with other cells
RenderRow(e, alt) ==
    [cells |-> << IF alt THEN "renamed" ELSE e.name,
                  IF alt THEN NoText ELSE e.connection,
                  e.host,
                  Mac(e.id, IF alt THEN ~e.upper ELSE e.upper),
                  e.parental >>,
     href  |-> IF e.href THEN e.id ELSE 0]

\* a div.row.wifi-row element that is no device row (fewer than 5 cells)
JunkRow == [cells |-> <<"Devices">>, href |-> 0]

\* rows of already rendered entries the page may show again after a scroll
Reshown ==
    {<<>>, <<JunkRow>>}
      \cup (IF revealed = 0 THEN {}
            ELSE {<<RenderRow(inventory[revealed], FALSE)>>,
                  <<RenderRow(inventory[1], TRUE)>>})

Fresh(j) == [k \in 1..j |-> RenderRow(inventory[revealed + k], FALSE)]

Hidden == Len(inventory) - revealed

\* the page renders after a load or a scroll: j new entries after the rows
\* `old`; it stalls (j = 0 with entries left) at most MaxStall times in a row
PageRender(j, old) ==
    /\ j \in 0..(IF Hidden < MaxFresh THEN Hidden ELSE MaxFresh)
    /\ old \in Reshown
    /\ (j = 0 /\ Hidden > 0) => stall < MaxStall
    /\ dom' = old \o Fresh(j)
    /\ revealed' = revealed + j
    /\ stall' = IF j = 0 /\ Hidden > 0 THEN stall + 1 ELSE 0
    /\ UNCHANGED inventory

---------------------------------------------------------------------------
(* DeviceRecord.from_row and RouterScraper._capture_visible_rows. *)

None == [none |-> TRUE]

FromRow(row) ==
    IF Len(row.cells) < MinCells THEN None
    ELSE [name              |-> row.cells[1],
          connection        |-> row.cells[2],
          host              |-> row.cells[3],
          mac_address       |-> Lower(row.cells[4]),
          parental_controls |-> IF row.cells[5] = "" THEN "None" ELSE row.cells[5],
          detail_url        |-> IF row.href # 0
                                THEN [from |-> "href", id |-> row.href]
                                ELSE [from |-> "mac", id |-> Lower(row.cells[4]).id]]

Keys(records) == {records[i].mac_address : i \in 1..Len(records)}

\* CaptureRow without the `if record.mac_address in seen: continue`
CaptureRow_NoDedup(s, row) ==
    LET record == FromRow(row) IN
    IF record = None THEN s ELSE Append(s, record)

\* CaptureRow with `seen[record.mac_address] = record` for a key already there
CaptureRow_LastWins(s, row) ==
    LET record == FromRow(row) IN
    IF record = None THEN s
    ELSE IF record.mac_address \in Keys(s)
         THEN [i \in 1..Len(s) |->
                 IF s[i].mac_address = record.mac_address THEN record ELSE s[i]]
    ELSE Append(s, record)

\* the loop body of _capture_visible_rows for one row
CaptureRow(s, row) ==
    LET record == FromRow(row) IN
    IF record = None THEN s
    ELSE IF record.mac_address \in Keys(s) THEN s
    ELSE Append(s, record)

RECURSIVE CaptureVisibleRows(_, _)
CaptureVisibleRows(s, rows) ==
    IF rows = <<>> THEN s
    ELSE CaptureVisibleRows(CaptureRow(s, Head(rows)), Tail(rows))

Added(s, rows) == Len(CaptureVisibleRows(s, rows)) - Len(s)

---------------------------------------------------------------------------
(* RouterScraper.load_device_rows. *)

max_scrolls == 60

Raise(e, f) == pc' = "raised" /\ exc' = e /\ where' = f

\* LoopExit of a `while True` loop: the stagnation break alone
LoopExit_NoCap(i, stag) == stag >= StagnationLimit

\* the loop ends after this iteration: `if stagnation >= 5: break`, or the
\* range is used up
LoopExit(i, stag) == stag >= StagnationLimit \/ i >= max_scrolls

NextStagnation_NoReset(stag, added) == IF added = 0 THEN stag + 1 ELSE stag

\* `if added == 0: stagnation += 1` / `else: stagnation = 0`
NextStagnation(stag, added) == IF added = 0 THEN stag + 1 ELSE 0

\* driver.get(devices_url) and the wait for div.row.wifi-row; an expired
\* session shows the login surface, which has no such rows
LoadOpen ==
    /\ pc = "load"
    /\ \/ /\ \E j \in 0..MaxFresh, old \in Reshown : PageRender(j, old)
          /\ surface' = "devices"
          /\ IF dom' = <<>>
             THEN /\ Raise("TimeoutException", "load_device_rows")
                  /\ UNCHANGED loaderVars
             ELSE /\ pc' = "load_loop"
                  /\ seen' = <<>>
                  /\ stagnation' = 0
                  /\ iter' = 0
                  /\ scrolls' = 0
                  /\ captures' = 0
                  /\ UNCHANGED <<exc, where, device_rows>>
       \/ /\ \E s \in {"login_url", "login_form"} : surface' = s
          /\ dom' = <<>>
          /\ Raise("TimeoutException", "load_device_rows")
          /\ UNCHANGED <<inventory, revealed, stall, loaderVars>>
       \/ /\ Raise("WebDriverException", "load_device_rows")
          /\ UNCHANGED <<pageVars, loaderVars, surface>>
    /\ UNCHANGED <<caller, logins, loginFailed>>
    /\ UNCHANGED <<detailVars, scrapeVars, bwVars, mainVars, fsVars>>
    /\ UNCHANGED <<fnVars, expandVars>>

\* one iteration of the scroll loop: capture, count, scroll, sleep, test
LoadIteration ==
    /\ pc = "load_loop"
    /\ LET added == Added(seen, dom)
           stag  == NextStagnation(stagnation, added)
       IN  /\ seen' = CaptureVisibleRows(seen, dom)
           /\ captures' = captures + 1
           /\ stagnation' = stag
           /\ \/ /\ \E j \in 0..MaxFresh, old \in Reshown : PageRender(j, old)
                 /\ scrolls' = scrolls + 1
                 /\ iter' = iter + 1
                 /\ pc' = IF LoopExit(iter + 1, stag) THEN "load_final" ELSE "load_loop"
                 /\ UNCHANGED <<exc, where>>
              \/ /\ Raise("WebDriverException", "load_device_rows")
                 /\ UNCHANGED <<pageVars, iter, scrolls>>
    /\ UNCHANGED device_rows
    /\ UNCHANGED <<loginVars, detailVars, scrapeVars, bwVars, mainVars, fsVars>>
    /\ UNCHANGED <<fnVars, expandVars>>

FinalPass_Skipped(s, rows) == s

\* `self._capture_visible_rows(seen)` after the loop
FinalPass(s, rows) == CaptureVisibleRows(s, rows)

\* the capture pass after the loop and the return
LoadFinish ==
    /\ pc = "load_final"
    /\ seen' = FinalPass(seen, dom)
    /\ captures' = captures + 1
    /\ device_rows' = seen'
    /\ pc' = "load_done"
    /\ UNCHANGED <<exc, where, pageVars, stagnation, iter, scrolls>>
    /\ UNCHANGED <<loginVars, detailVars, scrapeVars, bwVars, mainVars, fsVars>>
    /\ UNCHANGED <<fnVars, expandVars>>

---------------------------------------------------------------------------
(* derive_connection and derive_status, on token texts. *)

RECURSIVE StripLeft(_)
StripLeft(t) == IF t # <<>> /\ Head(t) = " " THEN StripLeft(Tail(t)) ELSE t

RECURSIVE StripRight(_)
StripRight(t) ==
    IF t # <<>> /\ t[Len(t)] = " " THEN StripRight(SubSeq(t, 1, Len(t) - 1)) ELSE t

\* str.strip()
Strip(t) == StripRight(StripLeft(t))

HasSlash(t) == \E i \in 1..Len(t) : t[i] = "/"

\* candidate.split("/", 1)[-1]
AfterFirstSlash(t) ==
    LET k == CHOOSE i \in 1..Len(t) : t[i] = "/" /\ \A j \in 1..(i - 1) : t[j] # "/"
    IN  SubSeq(t, k + 1, Len(t))

\* the words whose lower-cased form contains "offline"
OfflineWords == {"Offline", "offline", "OFFLINE"}

\* "offline" in connection.lower()
ContainsOffline(t) == \E i \in 1..Len(t) : t[i] \in OfflineWords

\* `detail` is NoText for a missing (None) or empty detail value
derive_connection(primary, detail) ==
    LET candidate == Strip(IF detail # NoText THEN detail ELSE primary)
    IN  IF HasSlash(candidate) THEN Strip(AfterFirstSlash(candidate)) ELSE candidate

\* `detail_status` is "" for a missing (None) or empty detail value
derive_status(detail_status, connection) ==
    IF detail_status # "" THEN detail_status
    ELSE IF connection # NoText /\ ContainsOffline(connection) THEN "Offline"
    ELSE IF connection # NoText THEN "Online"
    ELSE "Unknown"

---------------------------------------------------------------------------
(* Exceptions. *)

IsWebDriverException(e) ==
    e \in {"WebDriverException", "TimeoutException", "NoSuchElementException"}

---------------------------------------------------------------------------
(* RouterScraper.login / BandwidthScraper.login (the same code). *)

\* the session is on the login surface: the URL contains "login", or a
\* password input is present; on "login_unreadable" the password input is
\* present and reading driver.current_url raises
LoginSurfaces == {"login_url", "login_form", "login_unreadable"}

\* driver.get(login_url) and the wait for input[type="password"]
LoginOpen ==
    /\ pc = "login"
    /\ logins' = logins + 1
    /\ redirected' = FALSE
    /\ \/ /\ pc' = "login_submit"
          /\ surface' = "login_url"
          /\ UNCHANGED <<exc, where, loginFailed>>
       \/ /\ Raise("TimeoutException", "login")
          /\ surface' = "blank"
          /\ loginFailed' = TRUE
       \/ /\ Raise("WebDriverException", "login")
          /\ UNCHANGED <<surface, loginFailed>>
    /\ UNCHANGED <<caller, attempts, attempt, loads, detail_data, staleFetch>>
    /\ UNCHANGED <<pageVars, loaderVars, scrapeVars, bwVars, mainVars, fsVars>>
    /\ UNCHANGED <<fnVars, expandVars>>

\* login() returns to its caller; in collect_device_details the loop goes on
\* to the next attempt after the sleep
LoginReturn ==
    /\ pc' = CASE caller = "scrape"  -> "load"
               [] caller = "collect" -> "bw_collect"
               [] OTHER              -> "detail_fetch"
    /\ attempt' = IF caller = "collect_device_details" THEN attempt + 1 ELSE attempt

AfterLandmarkWait_Raises(navbar) == IF navbar THEN "none" ELSE "TimeoutException"

\* the exception that leaves the wait for #navigation_bar: `except
\* TimeoutException:` logs a warning, so none
AfterLandmarkWait(navbar) == "none"

\* the password is typed, the Log In button clicked, the navigation bar awaited;
\* a missing navigation bar is a warning only
LoginSubmit ==
    /\ pc = "login_submit"
    /\ \/ /\ Raise("NoSuchElementException", "login")
          /\ UNCHANGED <<surface, attempt>>
       \/ \E navbar \in BOOLEAN :
             IF AfterLandmarkWait(navbar) # "none"
             THEN /\ Raise(AfterLandmarkWait(navbar), "login")
                  /\ UNCHANGED <<surface, attempt>>
             ELSE /\ surface' = IF navbar THEN "home" ELSE "login_url"
                  /\ LoginReturn
                  /\ UNCHANGED <<exc, where>>
    /\ UNCHANGED <<caller, logins, loginFailed>>
    /\ UNCHANGED <<attempts, loads, detail_data, redirected, staleFetch>>
    /\ UNCHANGED <<pageVars, loaderVars, scrapeVars, bwVars, mainVars, fsVars>>
    /\ UNCHANGED <<fnVars, expandVars>>

---------------------------------------------------------------------------
(* RouterScraper.collect_device_details, _scrape_device_details_once and   *)
(* _on_login_page.                                                         *)

\* default of the parameter `attempts`
DefaultAttempts == 2

NoDetails == [k \in {} |-> ""]

\* what _scrape_device_details_once may parse from the detail page of a device
DetailPages(record) ==
    { NoDetails,
      [status |-> "Online", connection |-> <<"Wi-Fi", " ", "/", " ", "5GHz">>,
       rssi |-> "-40"],
      [device_type |-> "Phone", mac_address |-> Mac(record.mac_address.id, TRUE)] }

\* collect_device_details is entered: `last_details = {}` and the loop starts;
\* detail_data holds last_details and then the returned mapping
CallCollect(n) ==
    /\ attempts' = n
    /\ attempt' = 1
    /\ loads' = 0
    /\ detail_data' = NoDetails
    /\ pc' = IF n >= 1 THEN "detail_fetch" ELSE "detail_done"

ReturnsDetails_Never(details) == FALSE

\* `if details: return details`
ReturnsDetails(details) == details # NoDetails

RetriesLeft_Always(attempt_, attempts_) == TRUE

\* `if attempt < attempts:` guards the login test and the sleep
RetriesLeft(attempt_, attempts_) == attempt_ < attempts_

\* one attempt: _scrape_device_details_once(url), then the tests of the loop
DetailFetch ==
    /\ pc = "detail_fetch"
    /\ loads' = loads + 1
    /\ staleFetch' = (staleFetch \/ redirected)
    /\ \/ /\ Raise("WebDriverException", "_scrape_device_details_once")
          /\ UNCHANGED <<surface, detail_data, redirected>>
       \/ \E s \in {"detail", "blank"} \cup LoginSurfaces :
          \E details \in (IF s = "detail" THEN DetailPages(device_rows[devIdx])
                                          ELSE {NoDetails}) :
             /\ surface' = s
             /\ redirected' = (details = NoDetails /\ s \in LoginSurfaces)
             /\ detail_data' = details
             /\ pc' = IF ReturnsDetails(details) THEN "detail_done"
                      ELSE IF RetriesLeft(attempt, attempts) THEN "retry_check"
                      ELSE "detail_done"
             /\ UNCHANGED <<exc, where>>
    /\ UNCHANGED <<caller, logins, loginFailed, attempts, attempt>>
    /\ UNCHANGED <<pageVars, loaderVars, scrapeVars, bwVars, mainVars, fsVars>>
    /\ UNCHANGED <<fnVars, expandVars>>

OnLoginPage_Never(s) == FALSE

\* _on_login_page(): an unreadable URL is "no"; "login" in the URL or a
\* password input is "yes"
OnLoginPage(s) == s \in {"login_url", "login_form"}

\* between two attempts: `if self._on_login_page(): self.login()`, then the
\* sleep; find_element may fail with a driver error when the URL was readable
\* and holds no "login"
RetryCheck ==
    /\ pc = "retry_check"
    /\ \/ /\ IF OnLoginPage(surface)
             THEN pc' = "login" /\ caller' = "collect_device_details"
                  /\ UNCHANGED attempt
             ELSE pc' = "detail_fetch" /\ attempt' = attempt + 1
                  /\ UNCHANGED caller
          /\ UNCHANGED <<exc, where>>
       \/ /\ surface \in {"detail", "blank", "login_form"}
          /\ Raise("WebDriverException", "_on_login_page")
          /\ UNCHANGED <<caller, attempt>>
    /\ UNCHANGED <<logins, loginFailed, surface>>
    /\ UNCHANGED <<attempts, loads, detail_data, redirected, staleFetch>>
    /\ UNCHANGED <<pageVars, loaderVars, scrapeVars, bwVars, mainVars, fsVars>>
    /\ UNCHANGED <<fnVars, expandVars>>

---------------------------------------------------------------------------
(* RouterScraper.scrape. *)

\* the locals of load_device_rows are gone once it has returned, and the list
\* page is not read again
LoaderLocalsDropped ==
    /\ seen' = <<>>
    /\ stagnation' = 0
    /\ iter' = 0
    /\ scrolls' = 0
    /\ captures' = 0
    /\ dom' = <<>>
    /\ stall' = 0
    /\ revealed' = 0

\* after load_device_rows: the empty-list test, run_id and collected_at, and
\* the first collect_device_details call
ScrapeDiscovered ==
    /\ pc = "load_done"
    /\ IF device_rows = <<>>
       THEN /\ Raise("RuntimeError", "scrape")
            /\ UNCHANGED <<detailVars, scrapeVars>>
       ELSE /\ run_id' = Seconds(now)
            /\ collected_at' = now
            /\ devices_output' = <<>>
            /\ devIdx' = 1
            /\ CallCollect(DefaultAttempts)
            /\ UNCHANGED <<exc, where, payload, redirected, staleFetch>>
    /\ LoaderLocalsDropped
    /\ UNCHANGED <<inventory, device_rows, loginVars, bwVars, mainVars, fsVars>>
    /\ UNCHANGED <<fnVars, expandVars>>

\* the exception was raised inside the try of scrape() around
\* collect_device_details
InDetailTry ==
    \/ where \in {"_scrape_device_details_once", "_on_login_page"}
    \/ where = "login" /\ caller = "collect_device_details"

CaughtByScrape_None(e) == FALSE

\* the except clause of that try: `except WebDriverException`
CaughtByScrape(e) == IsWebDriverException(e)

\* `except WebDriverException: detail_data = {}`
ScrapeCatch ==
    /\ pc = "raised"
    /\ InDetailTry
    /\ CaughtByScrape(exc)
    /\ detail_data' = NoDetails
    /\ pc' = "detail_done"
    /\ exc' = "none"
    /\ where' = "none"
    /\ UNCHANGED <<attempts, attempt, loads, redirected, staleFetch>>
    /\ UNCHANGED <<pageVars, loaderVars, loginVars, scrapeVars, bwVars, mainVars, fsVars>>
    /\ UNCHANGED <<fnVars, expandVars>>

\* dict.get(key) of a detail mapping, "" / NoText standing for None
DetailText(detail, key, none) == IF key \in DOMAIN detail THEN detail[key] ELSE none

\* the dict `merged` before the detail fields are copied in
BaseFields(record, detail, rid, at) ==
    LET connection == derive_connection(record.connection,
                                        DetailText(detail, "connection", NoText))
    IN  [name              |-> record.name,
         connection        |-> connection,
         mac_address       |-> record.mac_address,
         host              |-> record.host,
         parental_controls |-> IF record.parental_controls # ""
                               THEN record.parental_controls
                               ELSE DetailText(detail, "parental_controls", "None"),
         status            |-> derive_status(DetailText(detail, "status", ""), connection),
         run_id            |-> rid,
         collected_at      |-> at]

CopiedKeys_All(detail) == DOMAIN detail

\* the keys the loop over detail_data.items() copies
CopiedKeys(detail) == DOMAIN detail \ {"connection"}

Merged_Restamped(record, detail, rid, at) ==
    LET base == BaseFields(record, detail, rid + 1, at)
    IN  [k \in DOMAIN base \cup CopiedKeys(detail) |->
            IF k \in CopiedKeys(detail) THEN detail[k] ELSE base[k]]

\* the dict `merged` of one device
Merged(record, detail, rid, at) ==
    LET base == BaseFields(record, detail, rid, at)
    IN  [k \in DOMAIN base \cup CopiedKeys(detail) |->
            IF k \in CopiedKeys(detail) THEN detail[k] ELSE base[k]]

MoreDevices_Never(i, rows) == FALSE

\* `for index, record in enumerate(device_rows, start=1)`: a record follows
MoreDevices(i, rows) == i < Len(rows)

\* the rest of the loop body for one device, then the next device or the
\* payload and the return
ScrapeMerge ==
    /\ pc = "detail_done"
    /\ LET merged == Merged(device_rows[devIdx], detail_data, run_id, collected_at)
           out    == Append(devices_output, merged)
       IN  /\ devices_output' = out
           /\ IF MoreDevices(devIdx, device_rows)
              THEN /\ devIdx' = devIdx + 1
                   /\ CallCollect(DefaultAttempts)
                   /\ UNCHANGED payload
              ELSE /\ payload' = [run_id       |-> run_id,
                                  collected_at |-> collected_at,
                                  device_count |-> Len(out),
                                  devices      |-> out]
                   /\ pc' = "write"
                   /\ UNCHANGED <<devIdx, attempts, attempt, loads, detail_data>>
    /\ UNCHANGED <<exc, where, run_id, collected_at, redirected, staleFetch>>
    /\ UNCHANGED <<pageVars, loaderVars, loginVars, bwVars, mainVars, fsVars>>
    /\ UNCHANGED <<fnVars, expandVars>>

---------------------------------------------------------------------------
(* Texts of the bandwidth page, character by character: a text is the      *)
(* sequence of its characters; "sup2" stands for the superscript digit     *)
(* U+00B2.                                                                 *)

\* the characters str.split(), str.strip() and \s take for whitespace
Whitespace == {" ", "\t", "\n"}

UpperLetters == <<"A", "B", "C", "D", "E", "F", "G", "H", "I", "J", "K", "L", "M", "N", "O", "P", "Q", "R", "S", "T", "U", "V", "W", "X", "Y", "Z">>

LowerLetters == <<"a", "b", "c", "d", "e", "f", "g", "h", "i", "j", "k", "l", "m", "n", "o", "p", "q", "r", "s", "t", "u", "v", "w", "x", "y", "z">>

IsLetter(c) ==
    \E i \in DOMAIN UpperLetters : UpperLetters[i] = c \/ LowerLetters[i] = c

\* str.lower() on one character
LowerChar(c) ==
    IF \E i \in DOMAIN UpperLetters : UpperLetters[i] = c
    THEN LowerLetters[CHOOSE i \in DOMAIN UpperLetters : UpperLetters[i] = c]
    ELSE c

\* str.lower()
Lowered(t) == [i \in 1..Len(t) |-> LowerChar(t[i])]

\* str.strip()
RECURSIVE StripWs(_)
StripWs(t) ==
    IF t = <<>> THEN t
    ELSE IF Head(t) \in Whitespace THEN StripWs(Tail(t))
    ELSE IF t[Len(t)] \in Whitespace THEN StripWs(SubSeq(t, 1, Len(t) - 1))
    ELSE t

\* str.split(): the maximal runs of non-whitespace characters
RECURSIVE SplitWords(_)
SplitWords(t) ==
    IF t = <<>> THEN <<>>
    ELSE IF Head(t) \in Whitespace THEN SplitWords(Tail(t))
    ELSE LET stops == {i \in 1..Len(t) : t[i] \in Whitespace}
             n     == IF stops = {} THEN Len(t) + 1
                      ELSE CHOOSE i \in stops : \A j \in stops : i <= j
         IN  <<SubSeq(t, 1, n - 1)>> \o SplitWords(SubSeq(t, n, Len(t)))

\* " ".join(words)
RECURSIVE JoinWords(_)
JoinWords(ws) ==
    IF ws = <<>> THEN <<>>
    ELSE IF Len(ws) = 1 THEN ws[1]
    ELSE ws[1] \o <<" ">> \o JoinWords(Tail(ws))

normalize_label_KeepCase(label) == JoinWords(SplitWords(StripWs(label)))

\* " ".join(label.strip().lower().split())
normalize_label(label) == JoinWords(SplitWords(Lowered(StripWs(label))))

\* " ".join(node.get_text(" ", strip=True).split()) on the text of a node
clean_text(t) == JoinWords(SplitWords(t))

---------------------------------------------------------------------------
(* size_to_bytes. *)

Digits == <<"0", "1", "2", "3", "4", "5", "6", "7", "8", "9">>

\* a character int() and [0-9] accept
IsDecimal(c) == \E i \in DOMAIN Digits : Digits[i] = c

DigitValue(c) == (CHOOSE i \in DOMAIN Digits : Digits[i] = c) - 1

\* characters str.isdigit() accepts and int() rejects
SuperscriptDigits == {"sup2"}

\* str.isdigit()
IsDigitText(t) ==
    /\ t # <<>>
    /\ \A i \in 1..Len(t) : IsDecimal(t[i]) \/ t[i] \in SuperscriptDigits

\* int(text) of decimal digits
RECURSIVE DecimalValue(_)
DecimalValue(t) ==
    IF t = <<>> THEN 0
    ELSE 10 * DecimalValue(SubSeq(t, 1, Len(t) - 1)) + DigitValue(t[Len(t)])

\* SIZE_PATTERN: where the group `value` ends, as the longest prefix of
\* digits and dots (the text after it has to start with whitespace or a letter)
ValueEnd(t) ==
    CHOOSE n \in 0..Len(t) :
        /\ \A i \in 1..n : IsDecimal(t[i]) \/ t[i] = "."
        /\ n < Len(t) => ~(IsDecimal(t[n + 1]) \/ t[n + 1] = ".")

\* SIZE_PATTERN: where \s* ends
SpaceEnd(t) ==
    CHOOSE n \in ValueEnd(t)..Len(t) :
        /\ \A i \in (ValueEnd(t) + 1)..n : t[i] \in Whitespace
        /\ n < Len(t) => t[n + 1] \notin Whitespace

\* the group `value`
ValueText(t) == SubSeq(t, 1, ValueEnd(t))

\* the group `unit`, empty for None
UnitText(t) == SubSeq(t, SpaceEnd(t) + 1, Len(t))

\* SIZE_PATTERN.match(text): [0-9]*\.?[0-9]+ then \s* then [a-zA-Z]+ or nothing
SizeMatches(t) ==
    LET v == ValueText(t) IN
    /\ v # <<>>
    /\ IsDecimal(v[Len(v)])
    /\ Cardinality({i \in 1..Len(v) : v[i] = "."}) <= 1
    /\ \A i \in 1..Len(UnitText(t)) : IsLetter(UnitText(t)[i])

\* the digits of `value` without its dot
ValueDigits(t) == SelectSeq(ValueText(t), IsDecimal)

\* the number of digits after the dot of `value`
ValueDecimals(t) ==
    LET v    == ValueText(t)
        dots == {i \in 1..Len(v) : v[i] = "."}
    IN  IF dots = {} THEN 0 ELSE Len(v) - (CHOOSE i \in dots : TRUE)

RECURSIVE Pow10(_)
Pow10(d) == IF d = 0 THEN 1 ELSE 10 * Pow10(d - 1)

\* the multiplier table, as the power of 1024: .get(unit, 1) is 1024^0
UnitPower(unit) ==
    CASE unit \in {<<"b">>,
     <<"b", "y", "t", "e">>,
     <<"b", "y", "t", "e", "s">>} -> 0
      [] unit \in {<<"k", "b">>,
     <<"k", "i", "l", "o", "b", "y", "t", "e">>,
     <<"k", "i", "l", "o", "b", "y", "t", "e", "s">>} -> 1
      [] unit \in {<<"m", "b">>,
     <<"m", "e", "g", "a", "b", "y", "t", "e">>,
     <<"m", "e", "g", "a", "b", "y", "t", "e", "s">>} -> 2
      [] unit \in {<<"g", "b">>,
     <<"g", "i", "g", "a", "b", "y", "t", "e">>,
     <<"g", "i", "g", "a", "b", "y", "t", "e", "s">>} -> 3
      [] unit \in {<<"t", "b">>,
     <<"t", "e", "r", "a", "b", "y", "t", "e">>,
     <<"t", "e", "r", "a", "b", "y", "t", "e", "s">>} -> 4
      [] OTHER -> 0

\* int((q + rem / den) * 1024^k), one factor 1024 at a time
RECURSIVE Scaled(_, _, _, _)
Scaled(q, rem, den, k) ==
    IF k = 0 THEN q
    ELSE Scaled(q * 1024 + (rem * 1024) \div den, (rem * 1024) % den, den, k - 1)

\* text.isdigit() holds and int(text) raises ValueError
SizeRaises(raw) ==
    LET text == StripWs(raw) IN
    /\ IsDigitText(text)
    /\ \E i \in 1..Len(text) : ~IsDecimal(text[i])

\* size_to_bytes(raw_value) when it returns; None goes the way of ""
size_to_bytes(raw) ==
    LET text == StripWs(raw) IN
    IF raw = <<>> THEN 0
    ELSE IF text = <<>> THEN 0
    ELSE IF IsDigitText(text) THEN DecimalValue(text)
    ELSE IF ~SizeMatches(text) THEN 0
    ELSE LET num  == DecimalValue(ValueDigits(text))
             den  == Pow10(ValueDecimals(text))
             unit == IF UnitText(text) = <<>> THEN <<"b", "y", "t", "e", "s">>
                     ELSE Lowered(UnitText(text))
         IN  Scaled(num \div den, num % den, den, UnitPower(unit))

---------------------------------------------------------------------------
(* parse_size of the viewer (src/visualize/app.py).  Its float result is  *)
(* kept as the integer part and the fraction that follows it.             *)

\* the multiplier table of parse_size, as the power of 1024
ParseUnitPower(unit) ==
    CASE unit \in {<<"b">>,
                 <<"b", "y", "t", "e">>,
                 <<"b", "y", "t", "e", "s">>} -> 0
      [] unit \in {<<"k", "b">>,
                 <<"k", "i", "l", "o", "b", "y", "t", "e", "s">>} -> 1
      [] unit \in {<<"m", "b">>,
                 <<"m", "e", "g", "a", "b", "y", "t", "e", "s">>} -> 2
      [] unit \in {<<"g", "b">>,
                 <<"g", "i", "g", "a", "b", "y", "t", "e", "s">>} -> 3
      [] OTHER -> 0

\* the numerator over den of what follows the integer part of
\* (q + rem / den) * 1024^k
RECURSIVE ScaledRest(_, _, _, _)
ScaledRest(q, rem, den, k) ==
    IF k = 0 THEN rem
    ELSE ScaledRest(q * 1024 + (rem * 1024) \div den, (rem * 1024) % den, den, k - 1)

\* a float: whole + rest / den
Float(whole, rest, den) == [whole |-> whole, rest |-> rest, den |-> den]

\* parse_size(raw) on a string when it returns
parse_size(raw) ==
    LET text == StripWs(raw) IN
    IF text = <<>> THEN Float(0, 0, 1)
    ELSE IF IsDigitText(text) THEN Float(DecimalValue(text), 0, 1)
    ELSE IF ~SizeMatches(text) THEN Float(0, 0, 1)
    ELSE LET num  == DecimalValue(ValueDigits(text))
             den  == Pow10(ValueDecimals(text))
             unit == IF UnitText(text) = <<>> THEN <<"b", "y", "t", "e", "s">>
                     ELSE Lowered(UnitText(text))
         IN  Float(Scaled(num \div den, num % den, den, ParseUnitPower(unit)),
                   ScaledRest(num \div den, num % den, den, ParseUnitPower(unit)),
                   den)

---------------------------------------------------------------------------
(* extract_one_hour_usage and find_first_usage_block.  A block is the      *)
(* sequence of its rows, a row the sequence of the texts of its cells.     *)

NoBlock == <<>>

\* header_lookup.get("1hr"): the last column whose label normalizes to "1hr",
\* 0 for None
OneHourIdx(header) ==
    LET hits == {i \in 1..Len(header) : normalize_label(clean_text(header[i])) = <<"1", "h", "r">>}
    IN  IF hits = {} THEN 0 ELSE CHOOSE i \in hits : \A j \in hits : j <= i

TooFewRows_Two(block) == Len(block) < 2

\* `if len(rows) < 3: return {}`
TooFewRows(block) == Len(block) < 3

\* the loop over rows[1:]: the rows carrying `label` that reach the 1hr column
LabelRows(block, label) ==
    {r \in 2..Len(block) :
        /\ block[r] # <<>>
        /\ normalize_label(clean_text(block[r][1])) = label
        /\ OneHourIdx(block[1]) <= Len(block[r])}

\* the dict `results`, keyed "upload" / "download": the 1hr cell of the last
\* row with that label
extract_one_hour_usage(block) ==
    IF TooFewRows(block) THEN [k \in {} |-> NoText]
    ELSE IF OneHourIdx(block[1]) = 0 THEN [k \in {} |-> NoText]
    ELSE [key \in {k \in {"upload", "download"} :
                     LabelRows(block, IF k = "upload" THEN <<"u", "p", "l", "o", "a", "d">> ELSE <<"d", "o", "w", "n", "l", "o", "a", "d">>) # {}} |->
            LET rows == LabelRows(block, IF key = "upload" THEN <<"u", "p", "l", "o", "a", "d">> ELSE <<"d", "o", "w", "n", "l", "o", "a", "d">>)
                r    == CHOOSE x \in rows : \A y \in rows : y <= x
            IN  clean_text(block[r][OneHourIdx(block[1])])]

\* metrics.get(key, "")
MetricText(metrics, key) == IF key \in DOMAIN metrics THEN metrics[key] ELSE NoText

\* cells of usage tables
UsageCell  == <<"U", "s", "a", "g", "e">>
HourCell   == <<"1", "h", "r">>
DayCell    == <<"2", "4", "h", "r">>
UploadCell == <<"U", "p", "l", "o", "a", "d">>
DownloadCell == <<"D", "o", "w", "n", "l", "o", "a", "d">>

GoodBlock ==
    << <<UsageCell, HourCell, DayCell>>,
       <<UploadCell, <<"1", ".", "5", " ", "M", "B">>, <<"1", "G", "B">>>>,
       <<DownloadCell, <<"5", "1", "2">>, <<"2", "G", "B">>>> >>

\* a usage table without a 1hr column
DailyBlock ==
    << <<UsageCell, DayCell>>,
       <<UploadCell, <<"1", "G", "B">>>>,
       <<DownloadCell, <<"2", "G", "B">>>> >>

\* a usage table whose only data row is the upload row
UploadOnlyBlock ==
    << <<<<"U", "S", "A", "G", "E">>, <<" ", "1", "H", "R", " ">>>>,
       <<UploadCell, <<"b", "o", "g", "u", "s">>>>,
       <<<<"T", "o", "t", "a", "l">>, <<"7">>>> >>

\* a usage table whose upload cell is a superscript digit
SuperscriptBlock ==
    << <<UsageCell, HourCell>>,
       <<UploadCell, <<"sup2">>>>,
       <<DownloadCell, <<"5", "M", "B">>>> >>

---------------------------------------------------------------------------
(* BandwidthScraper.collect and collect_bandwidth_usage. *)

\* what _select_bandwidth_tab meets: no such tab, a tab that never gets
\* highlighted, a tab that is or becomes active
TabStates == {"missing", "stuck", "active"}

\* _select_bandwidth_tab(label)
SelectBandwidthTab(tab) == tab = "active"

\* the usage block find_first_usage_block may find on the WAN tab
WanBlocks == {NoBlock, GoodBlock, DailyBlock, UploadOnlyBlock, SuperscriptBlock}

\* _scrape_wan_bandwidth(): one of its two size_to_bytes calls raises
WanRaises(tab, block) ==
    /\ SelectBandwidthTab(tab)
    /\ block # NoBlock
    /\ DOMAIN extract_one_hour_usage(block) # {}
    /\ \E key \in {"upload", "download"} :
          SizeRaises(MetricText(extract_one_hour_usage(block), key))

\* _scrape_wan_bandwidth() on a tab state and the block found
ScrapeWanBandwidth(tab, block) ==
    IF ~SelectBandwidthTab(tab) THEN [k \in {} |-> 0]
    ELSE IF block = NoBlock THEN [k \in {} |-> 0]
    ELSE LET metrics == extract_one_hour_usage(block) IN
         IF DOMAIN metrics = {} THEN [k \in {} |-> 0]
         ELSE [upload_1hr   |-> size_to_bytes(MetricText(metrics, "upload")),
               download_1hr |-> size_to_bytes(MetricText(metrics, "download"))]

\* a span.band-row-text with its summary cells and, when its row is expanded,
\* its usage block
LanEntry(cells, block) == [name |-> "laptop", cells |-> cells, usage |-> block]

\* the LAN tab after _expand_all_bandwidth_rows
LanPages ==
    { <<>>,
      <<LanEntry(<<"laptop", "wifi", "192.168.1.5",
                   <<"1", ".", "2", " ", "G", "B">>>>, GoodBlock)>>,
      <<LanEntry(<<"laptop", "wifi">>, UploadOnlyBlock),
        LanEntry(<<"laptop", "wifi", "192.168.1.6">>, NoBlock)>>,
      <<LanEntry(<<"laptop", "wifi", "192.168.1.7", <<"sup2">>>>, GoodBlock)>> }

\* the texts the loop body hands to size_to_bytes for one span
SizeTextsOf(e) ==
    {IF Len(e.cells) >= 4 THEN e.cells[4] ELSE NoText}
    \cup {MetricText(extract_one_hour_usage(e.usage), key) : key \in {"upload", "download"}}

\* _scrape_lan_bandwidth(): a size_to_bytes call of some span raises
LanRaises(tab, page) ==
    /\ SelectBandwidthTab(tab)
    /\ \E i \in 1..Len(page) :
          /\ page[i].usage # NoBlock
          /\ DOMAIN extract_one_hour_usage(page[i].usage) # {}
          /\ \E t \in SizeTextsOf(page[i]) : SizeRaises(t)

\* the loop body of _scrape_lan_bandwidth for one span: a device entry, or
\* nothing when the row has no usage block with a 1hr column
RECURSIVE LanDevices(_)
LanDevices(entries) ==
    IF entries = <<>> THEN <<>>
    ELSE LET e       == Head(entries)
             metrics == extract_one_hour_usage(e.usage)
         IN  IF e.usage = NoBlock \/ DOMAIN metrics = {}
             THEN LanDevices(Tail(entries))
             ELSE << [device_name  |-> e.name,
                      ip_address   |-> IF Len(e.cells) >= 3 THEN e.cells[3] ELSE "",
                      total_usage  |-> size_to_bytes(IF Len(e.cells) >= 4
                                                     THEN e.cells[4] ELSE NoText),
                      upload_1hr   |-> size_to_bytes(MetricText(metrics, "upload")),
                      download_1hr |-> size_to_bytes(MetricText(metrics, "download"))] >>
                  \o LanDevices(Tail(entries))

\* _scrape_lan_bandwidth() on a tab state and the page after expansion
ScrapeLanBandwidth(tab, page) ==
    IF ~SelectBandwidthTab(tab) THEN <<>> ELSE LanDevices(page)

\* collect(): run_id and collected_at; collect_bandwidth_usage: the page load
\* and the wait for div.cat-info, whose timeout (a page that stays blank, or
\* the login surface of an expired session) makes the payload {}
BwCollect ==
    /\ pc = "bw_collect"
    /\ run_id' = Seconds(now)
    /\ collected_at' = now
    /\ \/ /\ pc' = "bw_wan"
          /\ surface' = "bandwidth"
          /\ UNCHANGED <<exc, where>>
       \/ /\ Raise("RuntimeError", "collect")
          /\ \E s \in {"blank", "login_url", "login_form"} : surface' = s
       \/ /\ Raise("WebDriverException", "collect_bandwidth_usage")
          /\ UNCHANGED surface
    /\ UNCHANGED <<caller, logins, loginFailed, devIdx, devices_output, payload>>
    /\ UNCHANGED <<pageVars, loaderVars, detailVars, bwVars, mainVars, fsVars>>
    /\ UNCHANGED <<fnVars, expandVars>>

\* wan_metrics = self._scrape_wan_bandwidth()
BwWan ==
    /\ pc = "bw_wan"
    /\ \/ \E tab \in TabStates, block \in WanBlocks :
            IF WanRaises(tab, block)
            THEN /\ Raise("ValueError", "size_to_bytes")
                 /\ UNCHANGED wan_metrics
            ELSE /\ wan_metrics' = ScrapeWanBandwidth(tab, block)
                 /\ pc' = "bw_lan"
                 /\ UNCHANGED <<exc, where>>
       \/ /\ Raise("WebDriverException", "_scrape_wan_bandwidth")
          /\ UNCHANGED wan_metrics
    /\ UNCHANGED lan_devices
    /\ UNCHANGED <<pageVars, loaderVars, loginVars, detailVars, scrapeVars, mainVars, fsVars>>
    /\ UNCHANGED <<fnVars, expandVars>>

\* lan_devices = self._scrape_lan_bandwidth(), the empty test, the payload
BwLan ==
    /\ pc = "bw_lan"
    /\ \/ \E tab \in TabStates, page \in LanPages :
            IF LanRaises(tab, page)
            THEN /\ Raise("ValueError", "size_to_bytes")
                 /\ UNCHANGED <<lan_devices, payload>>
            ELSE LET lan == ScrapeLanBandwidth(tab, page) IN
                 /\ lan_devices' = lan
                 /\ IF DOMAIN wan_metrics = {} /\ lan = <<>>
                    THEN /\ Raise("RuntimeError", "collect")
                         /\ UNCHANGED payload
                    ELSE /\ payload' = [run_id       |-> run_id,
                                        collected_at |-> collected_at,
                                        wan          |-> wan_metrics,
                                        lan_devices  |-> lan]
                         /\ pc' = "write"
                         /\ UNCHANGED <<exc, where>>
       \/ /\ Raise("WebDriverException", "_scrape_lan_bandwidth")
          /\ UNCHANGED <<lan_devices, payload>>
    /\ UNCHANGED <<wan_metrics, devIdx, run_id, collected_at, devices_output>>
    /\ UNCHANGED <<pageVars, loaderVars, loginVars, detailVars, mainVars, fsVars>>
    /\ UNCHANGED <<fnVars, expandVars>>

---------------------------------------------------------------------------
(* BandwidthScraper._expand_all_bandwidth_rows and _expand_bandwidth_row.  *)
(* A row of the LAN tab is known by its place in the list of               *)
(* span.band-row-text elements; the page only ever appends rows.           *)

\* rows the LAN tab shows in all
MaxLanRows == 20

\* rows that one scroll, or the time one row takes, adds to the page
MaxNewRows == 1

\* rows on the page when the walk starts, at most
MaxFirstRows == 2

\* `max_scrolls = 80`
expand_max_scrolls == 80

\* `if stagnation >= 5`
ExpandStagnationLimit == 5

\* `if len(detail_rows) >= 3`
MinDetailRows == 3

\* the i-th row of the tab: how many sub-rows its detail shows, whether it has
\* a span.vs__open-indicator, whether the span still has its ancestor row;
\* every combination occurs, decided by i.  clicks and settles count the
\* toggle clicks and the settle delays the walk spent on the row.
PatternRow(i) ==
    [detail_rows |-> IF i % 4 = 2 THEN 3 ELSE IF i % 4 = 3 THEN 1 ELSE 0,
     toggle      |-> (i % 3 # 0),
     attached    |-> (i % 5 # 0),
     clicks      |-> 0,
     settles     |-> 0]

PatternRows(n) == [i \in 1..n |-> PatternRow(i)]

\* the page after j more rows were appended
Appended(rows, j) ==
    rows \o [k \in 1..j |-> PatternRow(Len(rows) + k)]

\* what a click on the toggle of row i does to its detail: an open detail is
\* closed; a closed one opens, at once or later than the settle delay
Toggled(row, i) ==
    IF row.detail_rows > 0 THEN 0
    ELSE IF i % 2 = 0 THEN MinDetailRows ELSE 0

AlreadyExpanded_Never(row) == FALSE

\* `if len(detail_rows) >= 3: return`
AlreadyExpanded(row) == row.detail_rows >= MinDetailRows

\* _expand_bandwidth_row clicks the toggle of this row
ClicksToggle(row) == row.attached /\ ~AlreadyExpanded(row) /\ row.toggle

\* _expand_bandwidth_row(span) on row i when it returns: the ancestor row is
\* gone, the detail shows 3 sub-rows or there is no toggle: nothing; else one
\* click (toggle.click(), or the script click when that raised) and the delay
ExpandBandwidthRow(row, i) ==
    IF ~ClicksToggle(row) THEN row
    ELSE [row EXCEPT !.detail_rows = Toggled(row, i),
                     !.clicks = @ + 1,
                     !.settles = @ + 1]

ExpandBreak_NoCap(stag, iterations) == stag >= ExpandStagnationLimit

\* `if stagnation >= 5 or scroll_iterations >= max_scrolls: break`
ExpandBreak(stag, iterations) ==
    stag >= ExpandStagnationLimit \/ iterations >= expand_max_scrolls

\* `if not spans: return`
ExpandEmpty ==
    /\ pc = "expand_loop"
    /\ spans = <<>>
    /\ pc' = "expand_done"
    /\ UNCHANGED <<exc, where, expandVars>>
    /\ UNCHANGED <<pageVars, loaderVars, loginVars, detailVars, scrapeVars, bwVars,
                   mainVars, fsVars, fnVars>>

\* `if index >= len(spans)`: the scroll, the delay, the two counters, the break
ExpandScroll ==
    /\ pc = "expand_loop"
    /\ spans # <<>>
    /\ index >= Len(spans)
    /\ \/ /\ \E j \in 0..MaxNewRows :
                /\ Len(spans) + j <= MaxLanRows
                /\ spans' = Appended(spans, j)
          /\ expand_stagnation' = expand_stagnation + 1
          /\ scroll_iterations' = scroll_iterations + 1
          /\ pc' = IF ExpandBreak(expand_stagnation + 1, scroll_iterations + 1)
                   THEN "expand_done" ELSE "expand_loop"
          /\ UNCHANGED <<exc, where, index>>
       \/ /\ Raise("WebDriverException", "_expand_all_bandwidth_rows")
          /\ UNCHANGED expandVars
    /\ UNCHANGED <<pageVars, loaderVars, loginVars, detailVars, scrapeVars, bwVars,
                   mainVars, fsVars, fnVars>>

\* the row at the cursor: `stagnation = 0`, `index += 1`,
\* _expand_bandwidth_row(span); both clicks failing raises
ExpandRow ==
    /\ pc = "expand_loop"
    /\ index < Len(spans)
    /\ expand_stagnation' = 0
    /\ index' = index + 1
    /\ \/ /\ \E j \in 0..MaxNewRows :
                /\ Len(spans) + j <= MaxLanRows
                /\ spans' = Appended([spans EXCEPT ![index + 1] =
                                        ExpandBandwidthRow(spans[index + 1], index + 1)], j)
          /\ pc' = "expand_loop"
          /\ UNCHANGED <<exc, where>>
       \/ /\ ClicksToggle(spans[index + 1])
          /\ Raise("WebDriverException", "_expand_bandwidth_row")
          /\ UNCHANGED spans
    /\ UNCHANGED scroll_iterations
    /\ UNCHANGED <<pageVars, loaderVars, loginVars, detailVars, scrapeVars, bwVars,
                   mainVars, fsVars, fnVars>>

\* driver.find_elements fails
ExpandQueryFails ==
    /\ pc = "expand_loop"
    /\ Raise("WebDriverException", "_expand_all_bandwidth_rows")
    /\ UNCHANGED expandVars
    /\ UNCHANGED <<pageVars, loaderVars, loginVars, detailVars, scrapeVars, bwVars,
                   mainVars, fsVars, fnVars>>

---------------------------------------------------------------------------
(* write_output / write_bandwidth_output. *)

Tools == {"devices", "bandwidth"}

\* an empty dict
NoPayload == [k \in {} |-> 0]

NoFiles == [n \in {} |-> 0]

NoPath == <<>>

FileName_Fixed(t, ts) ==
    <<IF t = "devices" THEN "devices_" ELSE "device_bandwidth_", 0>>

\* f"devices_{timestamp}.json" / f"device_bandwidth_{timestamp}.json"
FileName(t, ts) ==
    <<IF t = "devices" THEN "devices_" ELSE "device_bandwidth_", ts>>

\* open("w"): the file is created, or truncated when it exists
Truncated(fs, path) ==
    [n \in DOMAIN fs \cup {path} |->
        IF n = path THEN [content |-> NoPayload, complete |-> FALSE] ELSE fs[n]]

\* the empty-payload return of write_bandwidth_output, mkdir, the timestamp,
\* the file name and open("w")
WriteOpen ==
    /\ pc = "write"
    /\ IF tool = "bandwidth" /\ payload = NoPayload
       THEN /\ pc' = "write_done"
            /\ UNCHANGED <<exc, where, files, output_path, created, writes>>
       ELSE \/ /\ Raise("OSError", "write_output")
               /\ UNCHANGED <<files, output_path, created, writes>>
            \/ LET path == FileName(tool, Seconds(now)) IN
               /\ output_path' = path
               /\ files' = Truncated(files, path)
               /\ created' = created + 1
               /\ writes' = Append(writes, [tool |-> tool, tick |-> now, path |-> path,
                                            payload |-> payload, done |-> FALSE])
               /\ pc' = "write_dump"
               /\ UNCHANGED <<exc, where>>
    /\ UNCHANGED now
    /\ UNCHANGED <<pageVars, loaderVars, loginVars, detailVars, scrapeVars, bwVars, mainVars>>
    /\ UNCHANGED <<fnVars, expandVars>>

\* json.dump(payload, handle) and the end of the with block; a failure leaves
\* what was written so far
WriteDump ==
    /\ pc = "write_dump"
    /\ \/ /\ files' = [files EXCEPT ![output_path] =
                          [content |-> payload, complete |-> TRUE]]
          /\ writes' = [writes EXCEPT ![Len(writes)].done = TRUE]
          /\ pc' = "write_done"
          /\ UNCHANGED <<exc, where>>
       \/ /\ Raise("OSError", "write_output")
          /\ UNCHANGED <<files, writes>>
    /\ UNCHANGED <<now, output_path, created>>
    /\ UNCHANGED <<pageVars, loaderVars, loginVars, detailVars, scrapeVars, bwVars, mainVars>>
    /\ UNCHANGED <<fnVars, expandVars>>

\* time passes before a statement that reads the clock
Tick ==
    /\ pc \in {"load_done", "bw_collect", "write"}
    /\ now < MaxClock
    /\ now' = now + 1
    /\ UNCHANGED <<files, output_path, created, writes>>
    /\ UNCHANGED <<ctlVars, pageVars, loaderVars, loginVars, detailVars, scrapeVars,
                   bwVars, mainVars>>
    /\ UNCHANGED <<fnVars, expandVars>>

---------------------------------------------------------------------------
(* main() of both tools. *)

\* the password test, then RouterScraper(...) / BandwidthScraper(...), whose
\* build_driver may fail, then the first statement of scrape() / collect()
MainStart ==
    /\ pc = "start"
    /\ IF ~hasPassword
       THEN /\ pc' = "exited"
            /\ exitCode' = 1
            /\ UNCHANGED <<driver, caller>>
       ELSE \/ /\ driver' = "open"
               /\ pc' = "login"
               /\ caller' = IF tool = "devices" THEN "scrape" ELSE "collect"
               /\ UNCHANGED exitCode
            \/ /\ pc' = "exited"
               /\ exitCode' = 1
               /\ UNCHANGED <<driver, caller>>
    /\ UNCHANGED <<exc, where, logins, loginFailed, surface, tool, hasPassword, quitCalls>>
    /\ UNCHANGED <<pageVars, loaderVars, detailVars, scrapeVars, bwVars, fsVars>>
    /\ UNCHANGED <<fnVars, expandVars>>

\* the statements of the try block of main()
TryBody ==
    {"login", "login_submit", "load", "load_loop", "load_final", "load_done",
     "detail_fetch", "retry_check", "detail_done", "bw_collect", "bw_wan", "bw_lan",
     "write", "write_dump", "write_done"}

\* Ctrl-C while the try block runs
Interrupt ==
    /\ pc \in TryBody
    /\ Raise("KeyboardInterrupt", "signal")
    /\ UNCHANGED <<pageVars, loaderVars, loginVars, detailVars, scrapeVars, bwVars,
                   mainVars, fsVars>>
    /\ UNCHANGED <<fnVars, expandVars>>

Close_Leaked ==
    UNCHANGED <<driver, quitCalls>>

\* scraper.close(): driver.quit(), a WebDriverException from it is swallowed
Close ==
    /\ quitCalls' = quitCalls + 1
    /\ driver' = "quit"

HandlerStatus_Zero(e) == 0

\* `return 1` of the KeyboardInterrupt handler and of the Exception handler
HandlerStatus(e) == 1

\* the exception leaves scrape() / collect() / the write
PropagatesToMain == ~(InDetailTry /\ CaughtByScrape(exc))

\* except KeyboardInterrupt / except Exception, then finally
MainExcept ==
    /\ pc = "raised"
    /\ PropagatesToMain
    /\ exitCode' = HandlerStatus(exc)
    /\ Close
    /\ pc' = "exited"
    /\ UNCHANGED <<exc, where, tool, hasPassword>>
    /\ UNCHANGED <<pageVars, loaderVars, loginVars, detailVars, scrapeVars, bwVars, fsVars>>
    /\ UNCHANGED <<fnVars, expandVars>>

\* the try block ends, finally, `return 0`
MainReturn ==
    /\ pc = "write_done"
    /\ Close
    /\ exitCode' = 0
    /\ pc' = "exited"
    /\ UNCHANGED <<exc, where, tool, hasPassword>>
    /\ UNCHANGED <<pageVars, loaderVars, loginVars, detailVars, scrapeVars, bwVars, fsVars>>
    /\ UNCHANGED <<fnVars, expandVars>>

---------------------------------------------------------------------------
(* Specifications. *)

\* devices of the console in a whole run
MaxRunDevices == 2

\* largest value of the parameter `attempts`
MaxAttempts == 3

\* write_output calls in a sequence of runs
MaxRuns == 3

\* nothing has run yet
FreshRun ==
    /\ exc = "none"
    /\ where = "none"
    /\ revealed = 0
    /\ stall = 0
    /\ dom = <<>>
    /\ seen = <<>>
    /\ stagnation = 0
    /\ iter = 0
    /\ scrolls = 0
    /\ captures = 0
    /\ device_rows = <<>>
    /\ caller = "none"
    /\ logins = 0
    /\ loginFailed = FALSE
    /\ surface = "blank"
    /\ attempts = 0
    /\ attempt = 0
    /\ loads = 0
    /\ detail_data = NoDetails
    /\ redirected = FALSE
    /\ staleFetch = FALSE
    /\ devIdx = 0
    /\ run_id = 0
    /\ collected_at = 0
    /\ devices_output = <<>>
    /\ payload = NoPayload
    /\ wan_metrics = [k \in {} |-> 0]
    /\ lan_devices = <<>>
    /\ quitCalls = 0
    /\ exitCode = -1
    /\ now = 0
    /\ files = NoFiles
    /\ output_path = NoPath
    /\ created = 0
    /\ writes = <<>>
    /\ result = <<>>
    /\ spans = <<>>
    /\ index = 0
    /\ expand_stagnation = 0
    /\ scroll_iterations = 0

\* nothing has run yet and no function is being called on its own
Fresh0 ==
    /\ FreshRun
    /\ arg = [fn |-> "none"]

(* load_device_rows called on its own, on any console table. *)
InitLoader ==
    /\ Fresh0
    /\ pc = "load"
    /\ inventory \in {PatternInventory(n) : n \in (0..MaxSmall) \cup {MaxMacs}}
    /\ tool = "devices"
    /\ hasPassword = TRUE
    /\ driver = "open"

NextLoader == LoadOpen \/ LoadIteration \/ LoadFinish

SpecLoader == InitLoader /\ [][NextLoader]_vars

(* One run of main() of either tool. *)
Init ==
    /\ Fresh0
    /\ pc = "start"
    /\ tool \in Tools
    /\ hasPassword \in BOOLEAN
    /\ inventory \in {PatternInventory(n) :
                        n \in IF tool = "devices" THEN 0..MaxRunDevices ELSE {0}}
    /\ driver = "none"

Next ==
    \/ MainStart
    \/ LoginOpen
    \/ LoginSubmit
    \/ LoadOpen
    \/ LoadIteration
    \/ LoadFinish
    \/ ScrapeDiscovered
    \/ DetailFetch
    \/ RetryCheck
    \/ ScrapeCatch
    \/ ScrapeMerge
    \/ BwCollect
    \/ BwWan
    \/ BwLan
    \/ WriteOpen
    \/ WriteDump
    \/ Tick
    \/ Interrupt
    \/ MainExcept
    \/ MainReturn

Spec == Init /\ [][Next]_vars

(* collect_device_details called on its own with any `attempts`. *)

\* the rows of a fully rendered list page
ListedRows(n) ==
    CaptureVisibleRows(<<>>, [i \in 1..n |-> RenderRow(PatternInventory(n)[i], FALSE)])

InitDetails ==
    /\ Fresh0
    /\ pc = "idle"
    /\ inventory = PatternInventory(MaxRunDevices)
    /\ tool = "devices"
    /\ hasPassword = TRUE
    /\ driver = "open"

\* self.collect_device_details(record.detail_url, attempts=n) for one record
CollectCall ==
    /\ pc = "idle"
    /\ device_rows' = ListedRows(Len(inventory))
    /\ \E i \in 1..Len(inventory) : devIdx' = i
    /\ \E n \in 0..MaxAttempts : CallCollect(n)
    /\ UNCHANGED <<exc, where, redirected, staleFetch>>
    /\ UNCHANGED <<run_id, collected_at, devices_output, payload>>
    /\ UNCHANGED <<seen, stagnation, iter, scrolls, captures>>
    /\ UNCHANGED <<pageVars, loginVars, bwVars, mainVars, fsVars>>
    /\ UNCHANGED <<fnVars, expandVars>>

NextDetails == CollectCall \/ DetailFetch \/ RetryCheck \/ LoginOpen \/ LoginSubmit

SpecDetails == InitDetails /\ [][NextDetails]_vars

(* The merge step of scrape() on any record and any detail mapping. *)

\* a mapping with the key `key` missing or holding one of `vals`
Optional(key, vals) ==
    {[k \in {} |-> 0]} \cup {[k \in {key} |-> v] : v \in vals}

\* what _scrape_device_details_once can return for a record: the status span
\* (its text may be empty), the labelled values Connection and MAC Address
\* (as the page prints them), and a value no list row has
DetailMappings(record) ==
    {a @@ b @@ c @@ d :
        a \in Optional("status", {"", "Online", "Offline"}),
        b \in Optional("connection", {NoText, <<"Ethernet">>,
                                      <<"Wi-Fi", " ", "/", " ", "5GHz">>,
                                      <<"2.4", "/", "5", "/", "GHz">>}),
        c \in Optional("mac_address", {Mac(record.mac_address.id, TRUE)}),
        d \in Optional("rssi", {"-40"})}

\* the loop of scrape() has the detail mapping of its only record in hand
InitMerge ==
    /\ pc = "detail_done"
    /\ exc = "none"
    /\ where = "none"
    /\ \E i \in 1..MaxMacs, alt \in BOOLEAN :
          /\ inventory = <<PatternEntry(i)>>
          /\ device_rows = <<FromRow(RenderRow(PatternEntry(i), alt))>>
    /\ detail_data \in DetailMappings(device_rows[1])
    /\ revealed = 0
    /\ stall = 0
    /\ dom = <<>>
    /\ seen = <<>>
    /\ stagnation = 0
    /\ iter = 0
    /\ scrolls = 0
    /\ captures = 0
    /\ caller = "scrape"
    /\ logins = 1
    /\ loginFailed = FALSE
    /\ surface = "detail"
    /\ attempts = DefaultAttempts
    /\ attempt = IF detail_data = NoDetails THEN DefaultAttempts ELSE 1
    /\ loads = attempt
    /\ redirected = FALSE
    /\ staleFetch = FALSE
    /\ devIdx = 1
    /\ run_id = 0
    /\ collected_at = 0
    /\ devices_output = <<>>
    /\ payload = NoPayload
    /\ wan_metrics = [k \in {} |-> 0]
    /\ lan_devices = <<>>
    /\ tool = "devices"
    /\ hasPassword = TRUE
    /\ driver = "open"
    /\ quitCalls = 0
    /\ exitCode = -1
    /\ now = 0
    /\ files = NoFiles
    /\ output_path = NoPath
    /\ created = 0
    /\ writes = <<>>
    /\ arg = [fn |-> "none"]
    /\ result = <<>>
    /\ spans = <<>>
    /\ index = 0
    /\ expand_stagnation = 0
    /\ scroll_iterations = 0

NextMerge == ScrapeMerge

SpecMerge == InitMerge /\ [][NextMerge]_vars

(* A sequence of runs reaching write_output / write_bandwidth_output. *)

\* what scrape() / collect() has returned to main() at instant `at`
RunPayload(t, at) ==
    IF t = "devices"
    THEN [run_id |-> Seconds(at), collected_at |-> at, device_count |-> 1,
          devices |-> <<[name |-> "dev"]>>]
    ELSE [run_id |-> Seconds(at), collected_at |-> at,
          wan |-> [upload_1hr |-> 512, download_1hr |-> 0],
          lan_devices |-> <<>>]

InitWrite ==
    /\ Fresh0
    /\ pc = "idle"
    /\ inventory = PatternInventory(0)
    /\ tool = "devices"
    /\ hasPassword = TRUE
    /\ driver = "open"

\* a run of one tool: `payload = scraper.scrape()` / `scraper.collect()` has
\* returned and the write is next
RunStart ==
    /\ pc \in {"idle", "write_done", "raised"}
    /\ Len(writes) < MaxRuns
    /\ \E t \in Tools :
          /\ tool' = t
          /\ payload' = RunPayload(t, now)
    /\ pc' = "write"
    /\ exc' = "none"
    /\ where' = "none"
    /\ created' = 0
    /\ output_path' = NoPath
    /\ UNCHANGED <<now, files, writes>>
    /\ UNCHANGED <<hasPassword, driver, quitCalls, exitCode>>
    /\ UNCHANGED <<devIdx, run_id, collected_at, devices_output>>
    /\ UNCHANGED <<pageVars, loaderVars, loginVars, detailVars, bwVars>>
    /\ UNCHANGED <<fnVars, expandVars>>

NextWrite == RunStart \/ WriteOpen \/ WriteDump \/ Tick

SpecWrite == InitWrite /\ [][NextWrite]_vars

(* The text functions called on their own: extract_one_hour_usage,          *)
(* size_to_bytes and normalize_label, each on arguments of a bounded set.   *)

\* data rows of a usage block
MaxDataRows == 3

\* header rows of usage blocks
Headers ==
    { <<UsageCell, HourCell, DayCell>>,
      <<UsageCell, DayCell>>,
      <<<<"U", "S", "A", "G", "E">>, <<" ", "1", "H", "R", " ">>>>,
      <<UsageCell, HourCell, <<"1", " ", "h", "r">>, <<"1", "H", "r">>>>,
      <<>> }

\* data rows of usage blocks
DataRows ==
    { <<UploadCell, <<"1", "0", "M", "B">>, <<"1", "G", "B">>>>,
      <<DownloadCell, <<"5", "M", "B">>, <<"2", "G", "B">>>>,
      <<<<" ", "U", "P", "L", "O", "A", "D", " ">>, <<"7", " ", " ", "K", "B">>>>,
      <<UploadCell, <<"9", "M", "B">>, <<"3", "G", "B">>, <<"4", "G", "B">>>>,
      <<<<"T", "o", "t", "a", "l">>, <<"1">>, <<"2">>>>,
      <<UploadCell>>,
      <<>> }

\* the blocks extract_one_hour_usage is called on: a block without rows, and
\* a header row followed by up to MaxDataRows data rows
Blocks ==
    {NoBlock} \cup
    {<<h>> \o d : h \in Headers,
                  d \in UNION {[1..k -> DataRows] : k \in 0..MaxDataRows}}

\* the `value` part of size texts, by how large a unit they bear in 32 bits
SmallValues == {<<"0">>,
     <<"0", ".", "0", "0", "1">>}

MediumValues == {<<".", "5">>,
     <<"0", ".", "7", "5">>,
     <<"1">>,
     <<"1", ".", "5">>}

LargeValues == {<<"5", "1", "2">>,
     <<"1", "0", ".", "2", "5">>}

\* value parts SIZE_PATTERN rejects
BadValues == {<<"5", ".">>,
     <<"1", ".", "2", ".", "3">>,
     <<"-", "5">>,
     <<"1", "e", "3">>,
     <<>>}

SizeGaps == {<<>>, <<" ">>, <<" ", " ">>, <<"\t">>}

UnitsToMega == {<<>>,
     <<"b">>,
     <<"B">>,
     <<"b", "y", "t", "e">>,
     <<"B", "y", "t", "e", "s">>,
     <<"k", "b">>,
     <<"K", "B">>,
     <<"K", "b">>,
     <<"k", "i", "l", "o", "b", "y", "t", "e">>,
     <<"K", "i", "l", "o", "b", "y", "t", "e", "s">>,
     <<"m", "b">>,
     <<"M", "B">>,
     <<"m", "e", "g", "a", "b", "y", "t", "e">>,
     <<"M", "E", "G", "A", "B", "Y", "T", "E", "S">>,
     <<"x", "y", "z">>,
     <<"k">>}

UnitsGiga == {<<"g", "b">>,
     <<"G", "B">>,
     <<"g", "i", "g", "a", "b", "y", "t", "e">>,
     <<"g", "i", "g", "a", "b", "y", "t", "e", "s">>}

UnitsTera == {<<"t", "b">>,
     <<"T", "B">>,
     <<"t", "e", "r", "a", "b", "y", "t", "e">>,
     <<"T", "e", "r", "a", "b", "y", "t", "e", "s">>}

\* texts that are not of the form value, whitespace, unit
OtherSizeTexts == {<<"b", "o", "g", "u", "s">>,
     <<" ">>,
     <<" ", " ", "5", "1", "2", " ">>,
     <<"1", ".", "5", " ", "M", "B", "/", "s">>,
     <<"1", " ", "M", " ", "B">>,
     <<"5", " ", "m", "b", " ", "2">>,
     <<"sup2">>,
     <<"1", "sup2">>,
     <<" ", "sup2", " ">>,
     <<"2", "sup2", "k", "b">>}

\* the texts size_to_bytes is called on
SizeTexts ==
    {v \o g \o u : v \in SmallValues, g \in SizeGaps,
                   u \in UnitsToMega \cup UnitsGiga \cup UnitsTera}
    \cup {v \o g \o u : v \in MediumValues, g \in SizeGaps,
                        u \in UnitsToMega \cup UnitsGiga}
    \cup {v \o g \o u : v \in LargeValues, g \in SizeGaps, u \in UnitsToMega}
    \cup {v \o g \o u : v \in BadValues, g \in SizeGaps, u \in {<<>>, <<"M", "B">>}}
    \cup OtherSizeTexts

\* str.upper() on one character
UpperChar(c) ==
    IF \E i \in DOMAIN LowerLetters : LowerLetters[i] = c
    THEN UpperLetters[CHOOSE i \in DOMAIN LowerLetters : LowerLetters[i] = c]
    ELSE c

\* a word in one of three letter cases
Cased(word, case) ==
    CASE case = "lower" -> word
      [] case = "upper" -> [i \in 1..Len(word) |-> UpperChar(word[i])]
      [] case = "title" -> [i \in 1..Len(word) |->
                              IF i = 1 THEN UpperChar(word[i]) ELSE word[i]]

\* the words written one after the other with `gap` between them
RECURSIVE Spaced(_, _, _)
Spaced(words, case, gap) ==
    IF words = <<>> THEN <<>>
    ELSE IF Len(words) = 1 THEN Cased(words[1], case)
    ELSE Cased(words[1], case) \o gap \o Spaced(Tail(words), case, gap)

\* the words labels are made of
LabelWords ==
    { <<>>,
      <<<<"m", "a", "c">>, <<"a", "d", "d", "r", "e", "s", "s">>>>,
      <<<<"1", "h", "r">>>>,
      <<<<"w", "i", "-", "f", "i">>, <<"5", "g", "h", "z">>, <<"b", "a", "n", "d">>>> }

LabelGaps == {<<" ">>, <<" ", " ">>, <<"\t">>, <<"\n", " ">>}

LabelMargins == {<<>>, <<" ">>, <<"\t", " ">>}

\* the spellings of a sequence of words: any letter case, any whitespace
\* between the words and around them
Spellings(words) ==
    {lead \o Spaced(words, case, gap) \o trail :
        case \in {"lower", "upper", "title"}, gap \in LabelGaps,
        lead \in LabelMargins, trail \in LabelMargins}

\* the calls: a function and its argument; normalize_label is called on two
\* spellings of the same words
FnInputs ==
    {[fn |-> "extract_one_hour_usage", block |-> b] : b \in Blocks}
    \cup {[fn |-> "size_to_bytes", none |-> FALSE, raw |-> t] : t \in SizeTexts}
    \cup {[fn |-> "size_to_bytes", none |-> TRUE, raw |-> <<>>]}
    \cup {[fn |-> "parse_size", none |-> FALSE, raw |-> t] : t \in SizeTexts}
    \cup {[fn |-> "parse_size", none |-> TRUE, raw |-> <<>>]}
    \cup {[fn |-> "normalize_label", label |-> <<" ", "M", "A", "C", " ", " ", "A", "d", "d", "r", "e", "s", "s", " ">>,
           other |-> <<"m", "a", "c", " ", "a", "d", "d", "r", "e", "s", "s">>]}
    \cup UNION {{[fn |-> "normalize_label", label |-> a, other |-> b] :
                    a \in Spellings(w), b \in Spellings(w)} : w \in LabelWords}

InitFunctions ==
    /\ FreshRun
    /\ pc = "call"
    /\ arg \in FnInputs
    /\ inventory = PatternInventory(0)
    /\ tool = "bandwidth"
    /\ hasPassword = TRUE
    /\ driver = "none"

\* results = extract_one_hour_usage(block)
ExtractCall ==
    /\ pc = "call"
    /\ arg.fn = "extract_one_hour_usage"
    /\ result' = <<extract_one_hour_usage(arg.block)>>
    /\ pc' = "returned"
    /\ UNCHANGED <<arg, exc, where>>
    /\ UNCHANGED <<pageVars, loaderVars, loginVars, detailVars, scrapeVars, bwVars, mainVars, fsVars>>
    /\ UNCHANGED expandVars

\* size_to_bytes(raw_value): the returned integer, or the ValueError of int()
SizeCall ==
    /\ pc = "call"
    /\ arg.fn = "size_to_bytes"
    /\ IF ~arg.none /\ SizeRaises(arg.raw)
       THEN /\ Raise("ValueError", "size_to_bytes")
            /\ UNCHANGED result
       ELSE /\ result' = <<size_to_bytes(arg.raw)>>
            /\ pc' = "returned"
            /\ UNCHANGED <<exc, where>>
    /\ UNCHANGED arg
    /\ UNCHANGED <<pageVars, loaderVars, loginVars, detailVars, scrapeVars, bwVars, mainVars, fsVars>>
    /\ UNCHANGED expandVars

\* parse_size(raw): the returned float, or the ValueError of float()
ParseCall ==
    /\ pc = "call"
    /\ arg.fn = "parse_size"
    /\ IF ~arg.none /\ SizeRaises(arg.raw)
       THEN /\ Raise("ValueError", "parse_size")
            /\ UNCHANGED result
       ELSE /\ result' = <<parse_size(arg.raw)>>
            /\ pc' = "returned"
            /\ UNCHANGED <<exc, where>>
    /\ UNCHANGED arg
    /\ UNCHANGED <<pageVars, loaderVars, loginVars, detailVars, scrapeVars, bwVars, mainVars, fsVars>>
    /\ UNCHANGED expandVars

\* normalize_label(label), normalize_label of that, normalize_label(other)
NormalizeCall ==
    /\ pc = "call"
    /\ arg.fn = "normalize_label"
    /\ result' = <<normalize_label(arg.label),
                   normalize_label(normalize_label(arg.label)),
                   normalize_label(arg.other)>>
    /\ pc' = "returned"
    /\ UNCHANGED <<arg, exc, where>>
    /\ UNCHANGED <<pageVars, loaderVars, loginVars, detailVars, scrapeVars, bwVars, mainVars, fsVars>>
    /\ UNCHANGED expandVars

NextFunctions == ExtractCall \/ SizeCall \/ ParseCall \/ NormalizeCall

SpecFunctions == InitFunctions /\ [][NextFunctions]_vars

(* _expand_all_bandwidth_rows called on its own, on any LAN tab. *)
InitExpand ==
    /\ exc = "none"
    /\ where = "none"
    /\ revealed = 0
    /\ stall = 0
    /\ dom = <<>>
    /\ seen = <<>>
    /\ stagnation = 0
    /\ iter = 0
    /\ scrolls = 0
    /\ captures = 0
    /\ device_rows = <<>>
    /\ caller = "none"
    /\ logins = 1
    /\ loginFailed = FALSE
    /\ surface = "bandwidth"
    /\ attempts = 0
    /\ attempt = 0
    /\ loads = 0
    /\ detail_data = NoDetails
    /\ redirected = FALSE
    /\ staleFetch = FALSE
    /\ devIdx = 0
    /\ run_id = 0
    /\ collected_at = 0
    /\ devices_output = <<>>
    /\ payload = NoPayload
    /\ wan_metrics = [k \in {} |-> 0]
    /\ lan_devices = <<>>
    /\ quitCalls = 0
    /\ exitCode = -1
    /\ now = 0
    /\ files = NoFiles
    /\ output_path = NoPath
    /\ created = 0
    /\ writes = <<>>
    /\ arg = [fn |-> "none"]
    /\ result = <<>>
    /\ pc = "expand_loop"
    /\ inventory = PatternInventory(0)
    /\ tool = "bandwidth"
    /\ hasPassword = TRUE
    /\ driver = "open"
    /\ spans \in {PatternRows(n) : n \in 0..MaxFirstRows}
    /\ index = 0
    /\ expand_stagnation = 0
    /\ scroll_iterations = 0

NextExpand == ExpandEmpty \/ ExpandScroll \/ ExpandRow \/ ExpandQueryFails

SpecExpand == InitExpand /\ [][NextExpand]_vars

\* the walk is not suspended for ever: the driver answers every call
SpecExpandFair == SpecExpand /\ WF_vars(NextExpand)

---------------------------------------------------------------------------
(* Properties of load_device_rows (SpecLoader). *)

LoaderReturned == pc = "load_done"

NoDuplicateMacs(records) ==
    \A i, j \in 1..Len(records) :
        records[i].mac_address = records[j].mac_address => i = j

\* the keys of the table entries the page has rendered so far
RevealedKeys == {Lower(Mac(inventory[i].id, inventory[i].upper)) : i \in 1..revealed}

(* C1 as stated: whatever way the source reveals its N distinct MAC-keyed   *)
(* rows over its bounded number of scroll steps, the loader returns exactly *)
(* N records, no MAC twice.  N is the size of the console's table.          *)
C1_ReturnsAllN ==
    LoaderReturned =>
        /\ Len(device_rows) = Len(inventory)
        /\ NoDuplicateMacs(device_rows)

(* C1 amended: the loader returns exactly one record per distinct          *)
(* lower-cased MAC among the device rows the page rendered before the loop *)
(* stopped, never a MAC twice, so at most N records; it returns all N when *)
(* the page has rendered every entry by then.                              *)
C1_ReturnsRevealedOnce ==
    LoaderReturned =>
        /\ NoDuplicateMacs(device_rows)
        /\ Keys(device_rows) = RevealedKeys
        /\ Len(device_rows) = revealed
        /\ Len(device_rows) <= Len(inventory)
        /\ (Hidden = 0 => Len(device_rows) = Len(inventory))

\* all of a three-device table returned, one record each, with the first
\* device's row on the page again (in the other letter case) at the last pass
C1_Witness ==
    /\ LoaderReturned
    /\ Len(inventory) >= 3
    /\ Len(device_rows) = Len(inventory)
    /\ \E k \in 1..Len(dom) : dom[k] = RenderRow(inventory[1], TRUE)

(* C2 as stated: a device list that shows no item and never reveals any    *)
(* makes load_device_rows return an empty list within the stagnation       *)
(* threshold; it does not raise.  (Driver faults are left aside.)          *)
C2_ZeroItemsReturnsEmpty ==
    (Len(inventory) = 0 /\ pc \in {"load_done", "raised"} /\ exc # "WebDriverException") =>
        /\ pc = "load_done"
        /\ device_rows = <<>>
        /\ scrolls <= StagnationLimit

(* C3: load_device_rows issues at most 60 scroll actions and at most 61    *)
(* capture passes, whatever the page does, and is never stuck before it    *)
(* returns or raises: one capture per scroll plus the final one.           *)
C3_BoundedScrolls ==
    /\ scrolls <= 60
    /\ captures <= 61
    /\ captures <= scrolls + 1
    /\ (LoaderReturned => captures = scrolls + 1)
    /\ (pc \in {"load", "load_loop", "load_final"} => ENABLED NextLoader)

\* the loop ran to its cap on a page that kept revealing rows
C3_Witness ==
    /\ LoaderReturned
    /\ scrolls = 60
    /\ captures = 61
    /\ stagnation < StagnationLimit

---------------------------------------------------------------------------
(* Detail retrieval inside scrape(). *)

BaseKeys ==
    {"name", "connection", "mac_address", "host", "parental_controls", "status",
     "run_id", "collected_at"}

DriverErrors == {"WebDriverException", "TimeoutException", "NoSuchElementException"}

DetailFunctions == {"_scrape_device_details_once", "_on_login_page", "login"}

\* the entry scrape() builds for a record whose detail retrieval gave nothing
BaseOnly(record) ==
    [name              |-> record.name,
     connection        |-> derive_connection(record.connection, NoText),
     mac_address       |-> record.mac_address,
     host              |-> record.host,
     parental_controls |-> record.parental_controls,
     status            |-> derive_status("", derive_connection(record.connection, NoText)),
     run_id            |-> run_id,
     collected_at      |-> collected_at]

\* C4: after discovery has returned at least one record, a timeout or driver
\* error of a detail retrieval (in a fetch, in the login-page test, in a
\* retry's re-login) never reaches main(): scrape goes on, its payload has one
\* entry per discovered record in order, and the entry of a record whose
\* retrieval gave nothing has exactly the list-row fields, the derived
\* connection and status, run_id and collected_at.
C4_DetailFailureNeverAborts ==
    /\ (pc \in {"detail_fetch", "retry_check", "detail_done"} /\ tool = "devices")
          => Len(devices_output) = devIdx - 1
    /\ ~(/\ pc = "exited"
         /\ exc \in DriverErrors
         /\ where \in DetailFunctions
         /\ caller = "collect_device_details" \/ where # "login")
    /\ (pc = "raised" /\ exc \in DriverErrors /\ where \in DetailFunctions
          /\ (caller = "collect_device_details" \/ where # "login"))
          => (ENABLED ScrapeCatch /\ ~ENABLED MainExcept)
    /\ (pc = "write" /\ tool = "devices")
          => /\ device_rows # <<>>
             /\ payload.device_count = Len(device_rows)
             /\ Len(payload.devices) = Len(device_rows)
             /\ \A i \in 1..Len(device_rows) :
                   /\ payload.devices[i].name = device_rows[i].name
                   /\ payload.devices[i].host = device_rows[i].host
                   /\ payload.devices[i].run_id = payload.run_id
                   /\ BaseKeys \subseteq DOMAIN payload.devices[i]
             /\ detail_data = NoDetails
                   => payload.devices[Len(device_rows)]
                         = BaseOnly(device_rows[Len(device_rows)])

\* two records were discovered, the retrieval of the last one was ended by an
\* exception after its first load, a login never saw the password field, and
\* scrape still returned its payload
C4_Witness ==
    /\ pc = "write"
    /\ tool = "devices"
    /\ Len(device_rows) = 2
    /\ detail_data = NoDetails
    /\ loads = 1
    /\ logins >= 2
    /\ loginFailed
    /\ DOMAIN payload.devices[1] # BaseKeys

\* C5: a login() that never sees the password field ends the run: the
\* exception travels to main(), which exits 1 without a snapshot, and no
\* further step of scrape()/collect() runs.
C5_LoginTimeoutFatal ==
    loginFailed =>
        /\ pc \in {"raised", "exited"}
        /\ pc = "exited" => (exitCode = 1 /\ created = 0)

\* C6 as stated: no detail fetch is ever issued between an empty fetch on the
\* login surface and the next login().
C6_LoginBeforeAnyFurtherFetch == ~staleFetch

\* C6: when a fetch that is not the last attempt of its device comes back
\* empty and _on_login_page() answers yes (the URL is readable and contains
\* "login", or holds a password input), login() is invoked before the next
\* fetch; login() is re-invoked only in that case.  A fetch is issued
\* without it only as the first attempt of a later device or when the URL
\* could not be read.
C6_ReloginOnDetectedRedirect ==
    /\ (pc = "detail_fetch" /\ redirected)
          => (attempt = 1 \/ surface = "login_unreadable")
    /\ (pc = "login" /\ caller = "collect_device_details")
          => (redirected /\ attempt < attempts /\ surface \in LoginSurfaces)
    /\ (pc = "retry_check" /\ surface \in {"login_url", "login_form"})
          => redirected

\* the second attempt for the first device is about to be fetched after the
\* re-login that the redirect of the first attempt caused
C6_Witness ==
    /\ pc = "detail_fetch"
    /\ devIdx = 1
    /\ attempt = 2
    /\ loads = 1
    /\ logins = 2
    /\ ~redirected
    /\ ~staleFetch

InCollectLoop == pc \in {"detail_fetch", "retry_check", "login", "login_submit"}

\* C7: collect_device_details(url, attempts) loads the detail page at most
\* `attempts` times; while the loop goes on every load so far was empty, so
\* the first non-empty load is the last one; it returns the empty mapping
\* exactly after `attempts` empty loads.
C7_AtMostAttemptsLoads ==
    /\ loads <= attempts
    /\ DefaultAttempts = 2
    /\ InCollectLoop
          => /\ detail_data = NoDetails
             /\ loads = IF pc = "detail_fetch" THEN attempt - 1 ELSE attempt
             /\ attempt <= attempts
    /\ pc = "detail_done"
          => \/ detail_data # NoDetails /\ loads >= 1 /\ loads = attempt
             \/ detail_data = NoDetails /\ loads = attempts

\* with three attempts allowed, the second load yielded fields and was the last
C7_Witness ==
    /\ pc = "detail_done"
    /\ attempts = 3
    /\ loads = 2
    /\ detail_data # NoDetails

---------------------------------------------------------------------------
(* main(): exit code, snapshot file, close(). *)

\* C8 as stated: exit code 0 exactly when the run wrote one snapshot file.
C8_ExitZeroIffWritten ==
    pc = "exited" => (exitCode = 0 <=> created = 1)

\* C8: main() exits 0 only after this run wrote exactly one snapshot file,
\* complete and holding the payload; an exit before the file was opened
\* (missing password, driver start, login, empty discovery, interruption, any
\* other exception) has code 1 and leaves no file.  A run that fails or is
\* interrupted once the file is open exits 1 although the file exists.
C8_ExitZeroOnlyAfterWrite ==
    pc = "exited" =>
        /\ exitCode \in {0, 1}
        /\ exitCode = 0
              => /\ created = 1
                 /\ Len(writes) = 1
                 /\ writes[1].done
                 /\ DOMAIN files = {output_path}
                 /\ files[output_path] = [content |-> payload, complete |-> TRUE]
                 /\ payload # NoPayload
        /\ output_path = NoPath
              => /\ exitCode = 1
                 /\ created = 0
                 /\ files = NoFiles
        /\ (~hasPassword \/ driver = "none") => exitCode = 1

\* the bandwidth tool exited 0 after writing its one file
C8_Witness ==
    /\ pc = "exited"
    /\ tool = "bandwidth"
    /\ exitCode = 0
    /\ created = 1
    /\ files[output_path].complete

\* C9: once the scraper object exists, every way out of main() calls close()
\* exactly once, and nothing runs after it: the session is open while the try
\* block runs, quit exactly once when main() has exited, and never quit when
\* it was never acquired.
C9_CloseExactlyOnce ==
    /\ quitCalls <= 1
    /\ driver = "quit" => (pc = "exited" /\ quitCalls = 1)
    /\ pc \in TryBody \cup {"raised"} => (driver = "open" /\ quitCalls = 0)
    /\ pc = "exited"
          => /\ driver \in {"none", "quit"}
             /\ driver = "none" => (quitCalls = 0 /\ logins = 0)
             /\ ~ENABLED Next

\* the initial login never saw the password field, main() exited 1 and the
\* session was quit once
C9_Witness ==
    /\ pc = "exited"
    /\ exc = "TimeoutException"
    /\ where = "login"
    /\ logins = 1
    /\ exitCode = 1
    /\ quitCalls = 1
    /\ driver = "quit"

---------------------------------------------------------------------------
(* Snapshot files over a sequence of runs. *)

\* a later write of the same tool fell into the same clock second
SameSecondLater(i) ==
    \E j \in (i + 1)..Len(writes) :
        /\ writes[j].tool = writes[i].tool
        /\ Seconds(writes[j].tick) = Seconds(writes[i].tick)

Intact(i) ==
    /\ writes[i].path \in DOMAIN files
    /\ files[writes[i].path] = [content |-> writes[i].payload, complete |-> TRUE]

\* C10 as stated: every completed write keeps its own file with its content,
\* one file per write.
C10_NeverOverwrites ==
    /\ \A i \in 1..Len(writes) : writes[i].done => Intact(i)
    /\ Cardinality(DOMAIN files) = Len(writes)

\* C10: the file of a completed write keeps its content as long as no later
\* write of the same tool happens in the same UTC second, and the directory
\* holds one file per tool and second written in; a later write of the same
\* tool in the same second opens the same name and truncates the earlier file.
C10_NewFileUnlessSameSecond ==
    /\ \A i \in 1..Len(writes) : (writes[i].done /\ ~SameSecondLater(i)) => Intact(i)
    /\ \A i \in 1..Len(writes) :
          writes[i].path \in DOMAIN files
    /\ Cardinality(DOMAIN files)
          = Cardinality({<<writes[i].tool, Seconds(writes[i].tick)>> : i \in 1..Len(writes)})
    /\ \A i, j \in 1..Len(writes) :
          (writes[i].path = writes[j].path)
             <=> (/\ writes[i].tool = writes[j].tool
                  /\ Seconds(writes[i].tick) = Seconds(writes[j].tick))

\* two completed writes of one tool in different seconds, and a third write
\* of the other tool: three files, the first two intact
C10_Witness ==
    /\ Len(writes) = 3
    /\ writes[1].done /\ writes[2].done /\ writes[3].done
    /\ writes[1].tool = writes[2].tool
    /\ writes[3].tool # writes[1].tool
    /\ Seconds(writes[1].tick) # Seconds(writes[2].tick)
    /\ Intact(1) /\ Intact(2) /\ Intact(3)
    /\ Cardinality(DOMAIN files) = 3

---------------------------------------------------------------------------
(* The snapshot file while and after it is written. *)

\* C11: a snapshot write is atomic: in every state, also after a failed or
\* interrupted write and while the write is under way, every file of the
\* output directory holds a complete payload.
C11_NoPartialFile ==
    \A n \in DOMAIN files : files[n].complete

---------------------------------------------------------------------------
(* The payload of scrape(). *)

\* C12: the payload scrape() returns has device_count = Len(devices) = the
\* number of discovered records, the entries follow the discovery order, and
\* every entry carries the run_id and collected_at of the payload; the same
\* holds for the entries built so far while the loop runs.
C12_OneRunIdentity ==
    /\ (tool = "devices" /\ pc \in {"detail_fetch", "retry_check", "detail_done", "write"})
          => \A i \in 1..Len(devices_output) :
                /\ devices_output[i].run_id = run_id
                /\ devices_output[i].collected_at = collected_at
                /\ devices_output[i].name = device_rows[i].name
                /\ devices_output[i].host = device_rows[i].host
    /\ (tool = "devices" /\ payload # NoPayload)
          => /\ payload.device_count = Len(payload.devices)
             /\ payload.device_count = Len(device_rows)
             /\ payload.devices = devices_output
             /\ payload.run_id = run_id
             /\ payload.collected_at = collected_at
             /\ \A i \in 1..Len(payload.devices) :
                   /\ payload.devices[i].run_id = payload.run_id
                   /\ payload.devices[i].collected_at = payload.collected_at

\* scrape() returned a payload of two devices whose run started after the
\* first clock tick, the first entry enriched by its detail page
C12_Witness ==
    /\ tool = "devices"
    /\ pc = "write"
    /\ payload # NoPayload
    /\ payload.device_count = 2
    /\ payload.collected_at > 0
    /\ "rssi" \in DOMAIN payload.devices[1]

---------------------------------------------------------------------------
(* The merge step: one record, one detail mapping, one entry. *)

\* the merge step has run on the only record
MergedOne == pc = "write" /\ tool = "devices" /\ Len(device_rows) = 1

\* C13: after the merge the entry's name, mac_address, host and
\* parental_controls are those of the list row, whatever the detail mapping.
C13_IdentityFieldsKept ==
    MergedOne =>
        /\ payload.devices[1].name              = device_rows[1].name
        /\ payload.devices[1].mac_address       = device_rows[1].mac_address
        /\ payload.devices[1].host              = device_rows[1].host
        /\ payload.devices[1].parental_controls = device_rows[1].parental_controls

\* C14: the entry's status is the detail status when the detail page gave a
\* non-empty one, else "Offline" / "Online" / "Unknown" from the derived
\* connection; it is never empty.
C14_StatusOneOfFour ==
    MergedOne =>
        /\ payload.devices[1].status # ""
        /\ payload.devices[1].status =
              IF "status" \in DOMAIN detail_data /\ detail_data.status # ""
              THEN detail_data.status
              ELSE IF \E i \in 1..Len(payload.devices[1].connection) :
                         payload.devices[1].connection[i] \in {"Offline", "offline", "OFFLINE"}
                   THEN "Offline"
                   ELSE IF payload.devices[1].connection # <<>> THEN "Online"
                   ELSE "Unknown"

\* the text the entry's connection is derived from
ChosenConnection ==
    IF "connection" \in DOMAIN detail_data /\ detail_data.connection # NoText
    THEN detail_data.connection
    ELSE device_rows[1].connection

\* C15: the entry's connection is the detail value when there is a non-empty
\* one, else the list-row value, else empty, cut after its first "/" and
\* trimmed; the raw detail value never replaces it.
C15_ConnectionDerived ==
    MergedOne =>
        /\ payload.devices[1].connection =
              IF HasSlash(ChosenConnection)
              THEN Strip(AfterFirstSlash(Strip(ChosenConnection)))
              ELSE Strip(ChosenConnection)
        /\ ChosenConnection = <<"Wi-Fi", " ", "/", " ", "5GHz">>
              => payload.devices[1].connection = <<"5GHz">>
        /\ ChosenConnection = <<"2.4", "/", "5", "/", "GHz">>
              => payload.devices[1].connection = <<"5", "/", "GHz">>
        /\ ChosenConnection = <<"Ethernet", "/", "Offline">>
              => payload.devices[1].connection = <<"Offline">>
        /\ ChosenConnection = <<"Ethernet">>
              => payload.devices[1].connection = <<"Ethernet">>
        /\ ChosenConnection = NoText
              => payload.devices[1].connection = NoText
        /\ (payload.devices[1].connection # NoText)
              => /\ Head(payload.devices[1].connection) \notin {" ", "/"}
                 /\ payload.devices[1].connection[Len(payload.devices[1].connection)] # " "

\* the detail page gave a prefixed connection and the list row another one:
\* the entry holds the detail value without its prefix
C15_Witness ==
    /\ MergedOne
    /\ "connection" \in DOMAIN detail_data
    /\ detail_data.connection = <<"Wi-Fi", " ", "/", " ", "5GHz">>
    /\ device_rows[1].connection = <<"Ethernet", "/", "Offline">>
    /\ payload.devices[1].connection = <<"5GHz">>

---------------------------------------------------------------------------
(* C16 *)

ExtractReturned == pc = "returned" /\ arg.fn = "extract_one_hour_usage"

\* the normalized label a key of the result stands for
LabelText(key) ==
    IF key = "upload" THEN <<"u", "p", "l", "o", "a", "d">> ELSE <<"d", "o", "w", "n", "l", "o", "a", "d">>

\* the columns of a header row whose normalized label is "1hr"
HourColumns(header) ==
    {i \in 1..Len(header) : normalize_label(clean_text(header[i])) = <<"1", "h", "r">>}

\* the 1hr column index: the last of the columns labelled 1hr
HourColumn(header) ==
    CHOOSE i \in HourColumns(header) : \A j \in HourColumns(header) : j <= i

\* the data rows of block b labelled `key` that have a cell at the 1hr column
RowsOf(b, key) ==
    {r \in 2..Len(b) :
        /\ b[r] # <<>>
        /\ normalize_label(clean_text(b[r][1])) = LabelText(key)
        /\ Len(b[r]) >= HourColumn(b[1])}

ExampleBlock ==
    << <<<<"U", "s", "a", "g", "e">>, <<"1", "h", "r">>, <<"2", "4", "h", "r">>>>,
       <<<<"U", "p", "l", "o", "a", "d">>, <<"1", "0", "M", "B">>, <<"1", "G", "B">>>>,
       <<<<"D", "o", "w", "n", "l", "o", "a", "d">>, <<"5", "M", "B">>, <<"2", "G", "B">>>> >>

\* C16 (as amended): extract_one_hour_usage(block) is {} when the block has
\* fewer than three rows or its header row has no column whose normalized
\* label is "1hr"; otherwise its keys are among upload and download, a label
\* is a key exactly when some later row carries it in its first cell and has
\* a cell at the 1hr column, and the value is the text of that cell in the
\* last such row; rows with other labels or too few cells contribute nothing;
\* header [Usage, 1hr, 24hr] with rows Upload|10MB|1GB and Download|5MB|2GB
\* gives {upload: 10MB, download: 5MB}.
C16_OneHourUsage ==
    ExtractReturned =>
        LET b == arg.block
            r == result[1]
        IN  /\ DOMAIN r \subseteq {"upload", "download"}
            /\ (Len(b) < 3 \/ HourColumns(b[1]) = {}) => DOMAIN r = {}
            /\ (Len(b) >= 3 /\ HourColumns(b[1]) # {}) =>
                  \A key \in {"upload", "download"} :
                     /\ key \in DOMAIN r <=> RowsOf(b, key) # {}
                     /\ \A row \in RowsOf(b, key) :
                           (\A later \in RowsOf(b, key) : later <= row)
                              => r[key] = clean_text(b[row][HourColumn(b[1])])
            /\ b = ExampleBlock =>
                  r = [upload |-> <<"1", "0", "M", "B">>, download |-> <<"5", "M", "B">>]

\* C16 as stated: with a 1hr column in the header row, every later row
\* labelled upload or download that has a cell at the 1hr column index puts
\* its label and that cell's text in the result, however many rows the block
\* has and whichever other rows carry the same label.
C16_EveryLabelledRowKept ==
    (ExtractReturned /\ arg.block # NoBlock) =>
        LET b == arg.block
            r == result[1]
        IN  /\ HourColumns(b[1]) = {} => DOMAIN r = {}
            /\ HourColumns(b[1]) # {} =>
                  \A key \in {"upload", "download"} : \A row \in RowsOf(b, key) :
                     /\ key \in DOMAIN r
                     /\ r[key] = clean_text(b[row][HourColumn(b[1])])

\* a row with another label lies between the upload row and the download row
C16_Witness ==
    /\ ExtractReturned
    /\ arg.block = << ExampleBlock[1], ExampleBlock[2],
                      <<<<"T", "o", "t", "a", "l">>, <<"1">>, <<"2">>>>, ExampleBlock[3] >>
    /\ result[1] = [upload |-> <<"1", "0", "M", "B">>, download |-> <<"5", "M", "B">>]

---------------------------------------------------------------------------
(* C17 *)

\* C17: size_to_bytes never raises and returns a non-negative integer, 0 for
\* None, for the empty text and for a text it cannot parse.
C17_SizeNeverRaises ==
    arg.fn = "size_to_bytes" =>
        /\ pc # "raised"
        /\ pc = "returned" => result[1] >= 0

---------------------------------------------------------------------------
(* C18 *)

NormalizeReturned == pc = "returned" /\ arg.fn = "normalize_label"

\* C18: normalize_label is idempotent, and two labels that differ only in
\* letter case and in leading, trailing or repeated whitespace normalize to
\* the same key.
C18_NormalizeIdempotentInsensitive ==
    NormalizeReturned =>
        /\ result[2] = result[1]
        /\ result[3] = result[1]

\* normalize(" MAC  Address ") and normalize("mac address")
C18_Witness ==
    /\ NormalizeReturned
    /\ arg.label = <<" ", "M", "A", "C", " ", " ", "A", "d", "d", "r", "e", "s", "s", " ">>
    /\ arg.other = <<"m", "a", "c", " ", "a", "d", "d", "r", "e", "s", "s">>
    /\ result[1] = <<"m", "a", "c", " ", "a", "d", "d", "r", "e", "s", "s">>

---------------------------------------------------------------------------
(* C19 *)

\* C19: every bandwidth snapshot file that has been written holds run_id,
\* collected_at, a wan object with upload_1hr and download_1hr, and a
\* lan_devices list whose entries have device_name, ip_address, total_usage,
\* upload_1hr and download_1hr, whichever tabs yielded data in the run.
C19_BandwidthSchema ==
    \A n \in DOMAIN files :
        (n[1] = "device_bandwidth_" /\ files[n].complete) =>
            LET c == files[n].content IN
            /\ DOMAIN c = {"run_id", "collected_at", "wan", "lan_devices"}
            /\ DOMAIN c.wan = {"upload_1hr", "download_1hr"}
            /\ \A i \in 1..Len(c.lan_devices) :
                  DOMAIN c.lan_devices[i] =
                     {"device_name", "ip_address", "total_usage",
                      "upload_1hr", "download_1hr"}

---------------------------------------------------------------------------
(* C20 *)

\* the keys a capture pass over the rows on the page can add
PageKeys == {FromRow(dom[k]).mac_address :
                k \in {j \in 1..Len(dom) : FromRow(dom[j]) # None}}

\* C20: across the capture passes of one load_device_rows call the seen
\* mapping only grows: every record captured stays, unchanged and in its
\* place, whatever rows with the same MAC the page shows later; keys are
\* lower-cased MACs, one record each; a pass adds only keys of rows on the
\* page, and the stagnation count is reset exactly when a pass added a key
\* that was not there before.
C20_SeenOnlyGrows ==
    [][ /\ Len(seen) <= Len(seen')
        /\ SubSeq(seen', 1, Len(seen)) = seen
        /\ \A i \in 1..Len(seen') : ~seen'[i].mac_address.upper
        /\ \A i, j \in 1..Len(seen') :
              seen'[i].mac_address = seen'[j].mac_address => i = j
        /\ Keys(seen') \subseteq Keys(seen) \cup PageKeys
        /\ pc = "load_loop" =>
              stagnation' = IF Keys(seen') = Keys(seen) THEN stagnation + 1 ELSE 0
      ]_vars

\* the call has returned, its last pass ran over a page showing the first
\* device again, renamed and with the MAC in the other letter case, and the
\* record captured first is the one returned
C20_Witness ==
    /\ pc = "load_done"
    /\ Len(inventory) >= 1
    /\ \E k \in 1..Len(dom) : dom[k] = RenderRow(inventory[1], TRUE)
    /\ device_rows[1] = FromRow(RenderRow(inventory[1], FALSE))
    /\ captures >= 2

---------------------------------------------------------------------------
(* C21 *)

\* a step of the scroll loop of load_device_rows: one capture pass
LoopPass == pc = "load_loop" /\ captures' = captures + 1

\* C21: in load_device_rows the stagnation counter is zero before the first
\* pass, a pass that adds no new key raises it by one and a pass that adds a
\* key resets it to zero, so it counts the most recent consecutive passes
\* without a new key; an iteration issues one scroll after its capture; the
\* loop is left for the final pass exactly when the counter has reached 5 or
\* 60 iterations have run, never earlier.
C21_StagnationAndExit ==
    [][ /\ (pc = "load" /\ pc' = "load_loop") =>
              stagnation' = 0 /\ iter' = 0 /\ scrolls' = 0 /\ captures' = 0
        /\ LoopPass =>
              /\ stagnation' = IF Keys(seen') \subseteq Keys(seen)
                               THEN stagnation + 1 ELSE 0
              /\ pc' # "raised" =>
                    /\ scrolls' = scrolls + 1
                    /\ iter' = iter + 1
                    /\ captures' = scrolls'
                    /\ pc' = "load_final" <=> (stagnation' = 5 \/ iter' = 60)
                    /\ pc' = "load_loop" <=> (stagnation' < 5 /\ iter' < 60)
        /\ pc = "load_final" => UNCHANGED <<stagnation, iter, scrolls>>
      ]_vars

\* the loop was left by stagnation after passes that had reset the counter
C21_Witness ==
    /\ pc = "load_final"
    /\ stagnation = 5
    /\ Len(seen) >= 2
    /\ iter > 7
    /\ iter < 60

---------------------------------------------------------------------------
(* C22 *)

\* the rows on the page from which from_row makes a record
ValidRows == {k \in 1..Len(dom) : Len(dom[k].cells) >= MinCells}

\* C22: when load_device_rows has returned, one capture pass has run after
\* the last scroll of the loop, whichever way the loop ended, and every row
\* of at least 5 cells on the page after that scroll has its record in the
\* returned list.
C22_FinalPassCatchesLastRows ==
    LoaderReturned =>
        /\ captures = iter + 1
        /\ \A k \in ValidRows : Lower(dom[k].cells[4]) \in Keys(device_rows)
        /\ device_rows = seen

\* no pass of the loop added a record: the returned one was rendered by the
\* last scroll and captured by the pass after the loop
C22_Witness ==
    /\ LoaderReturned
    /\ stagnation = iter
    /\ iter = StagnationLimit
    /\ Len(device_rows) >= 1
    /\ ValidRows # {}

---------------------------------------------------------------------------
(* C23 *)

\* C23: the walk of _expand_all_bandwidth_rows goes by index: the cursor
\* never decreases, a step touches no row but the one at the cursor and then
\* moves the cursor past it, so each index is handled at most once; a row
\* whose detail shows at least 3 sub-rows is never clicked and stays as it
\* is; a row with fewer than 3 sub-rows and a toggle gets one toggle click
\* followed by one settle delay, and no row is ever clicked twice.
C23_ExpansionIdempotent ==
    [][ /\ index' >= index
        /\ index' <= index + 1
        /\ \A i \in 1..Len(spans) :
              /\ spans'[i] # spans[i] => (i = index + 1 /\ index' = index + 1)
              /\ spans[i].detail_rows >= 3 => spans'[i] = spans[i]
              /\ ( /\ i = index + 1
                   /\ index' = index + 1
                   /\ pc' # "raised"
                   /\ spans[i].attached
                   /\ spans[i].toggle
                   /\ spans[i].detail_rows < 3 ) =>
                      /\ spans'[i].clicks = spans[i].clicks + 1
                      /\ spans'[i].settles = spans[i].settles + 1
        /\ \A i \in 1..Len(spans') :
              /\ spans'[i].clicks <= 1
              /\ spans'[i].settles = spans'[i].clicks
              /\ i > index' => spans'[i].clicks = 0
      ]_vars

\* the walk is over; it clicked the first row, which was closed, and passed
\* the second, which showed three sub-rows and still does
C23_Witness ==
    /\ pc = "expand_done"
    /\ index >= 2
    /\ spans[1].clicks = 1
    /\ spans[2].clicks = 0
    /\ spans[2].detail_rows = 3
    /\ spans[2].toggle

---------------------------------------------------------------------------
(* C24 *)

ExpandOver == pc \in {"expand_done", "raised"}

---------------------------------------------------------------------------
(* C25 *)

\* the step of its caller that follows a login() that returned
AfterLogin ==
    CASE caller = "scrape"  -> "load"
      [] caller = "collect" -> "bw_collect"
      [] OTHER              -> "detail_fetch"

\* C25: once the password field has appeared and the form is submitted, a
\* navigation bar that does not appear within the wait raises nothing:
\* login() returns, its caller goes on with its next step, the browser still
\* on the login page, and this login is neither counted as failed nor
\* repeated.
C25_MissingLandmarkIsWarning ==
    [][ pc = "login_submit" =>
          /\ exc' # "TimeoutException"
          /\ (pc' # "raised" /\ surface' = "login_url") =>
                /\ pc' = AfterLogin
                /\ exc' = "none"
                /\ logins' = logins
                /\ loginFailed' = loginFailed
                /\ exitCode' = -1
      ]_vars

\* the first login of the device tool found no navigation bar and the run is
\* about to load the device list
C25_Witness ==
    /\ pc = "load"
    /\ caller = "scrape"
    /\ surface = "login_url"
    /\ logins = 1
    /\ ~loginFailed
    /\ exitCode = -1

---------------------------------------------------------------------------
(* C26 *)

InitialLogin == pc \in {"login", "login_submit"} /\ caller = "scrape"

DiscoveryPhase == pc \in {"load", "load_loop", "load_final", "load_done"}

DetailPhase ==
    \/ pc \in {"detail_fetch", "retry_check", "detail_done"}
    \/ pc \in {"login", "login_submit"} /\ caller = "collect_device_details"

WritePhase == pc \in {"write", "write_dump", "write_done"}

NoDetailYet == devIdx = 0 /\ loads = 0 /\ devices_output = <<>>

\* C26: a run of the device tool goes: initial login, device-list discovery,
\* detail retrieval for the discovered records one at a time in discovery
\* order, payload, one snapshot write.  No detail page is fetched before
\* discovery has returned, a login after the first occurs only inside a
\* detail retrieval, and nothing is written before the last record has been
\* merged.
C26_RunOrder ==
    tool = "devices" =>
        /\ InitialLogin =>
              logins <= 1 /\ device_rows = <<>> /\ NoDetailYet /\ writes = <<>>
        /\ DiscoveryPhase => logins = 1 /\ NoDetailYet /\ writes = <<>>
        /\ (loads > 0 \/ devIdx > 0) => device_rows # <<>>
        /\ DetailPhase =>
              /\ devIdx \in 1..Len(device_rows)
              /\ Len(devices_output) = devIdx - 1
              /\ payload = NoPayload
              /\ writes = <<>>
        /\ \A i \in 1..Len(devices_output) :
              /\ i <= Len(device_rows)
              /\ devices_output[i].mac_address.id = device_rows[i].mac_address.id
        /\ logins > 1 => (caller = "collect_device_details" /\ devIdx >= 1)
        /\ (WritePhase \/ writes # <<>>) =>
              /\ Len(devices_output) = Len(device_rows)
              /\ payload.devices = devices_output
        /\ Len(writes) <= 1
        /\ created <= 1

\* a run over two devices that logged in again during a detail retrieval has
\* written its snapshot
C26_Witness ==
    /\ tool = "devices"
    /\ pc = "write_done"
    /\ Len(device_rows) = 2
    /\ Len(devices_output) = 2
    /\ logins >= 2
    /\ Len(writes) = 1

---------------------------------------------------------------------------
(* C27 *)

\* C27: the second in the name of every written snapshot file is the instant
\* of the run_id in the payload the file holds.
C27_FileNameCarriesRunId ==
    \A n \in DOMAIN files :
        files[n].complete => n[2] = files[n].content.run_id

---------------------------------------------------------------------------
(* C28 *)

\* the unit names of the conversion: bytes, kb, mb, gb, tb and their long forms
AcceptedUnits ==
    {<<"b">>,
     <<"b", "y", "t", "e">>,
     <<"b", "y", "t", "e", "s">>,
     <<"k", "b">>,
     <<"k", "i", "l", "o", "b", "y", "t", "e">>,
     <<"k", "i", "l", "o", "b", "y", "t", "e", "s">>,
     <<"m", "b">>,
     <<"m", "e", "g", "a", "b", "y", "t", "e">>,
     <<"m", "e", "g", "a", "b", "y", "t", "e", "s">>,
     <<"g", "b">>,
     <<"g", "i", "g", "a", "b", "y", "t", "e">>,
     <<"g", "i", "g", "a", "b", "y", "t", "e", "s">>,
     <<"t", "b">>,
     <<"t", "e", "r", "a", "b", "y", "t", "e">>,
     <<"t", "e", "r", "a", "b", "y", "t", "e", "s">>}

\* size strings with an accepted unit, bare digit strings, the empty input
ConversionInput(raw) ==
    LET text == StripWs(raw) IN
    \/ text = <<>>
    \/ \A i \in 1..Len(text) : IsDecimal(text[i])
    \/ SizeMatches(text) /\ Lowered(UnitText(text)) \in AcceptedUnits

\* C28: for every size string with an accepted unit, in any letter case, for
\* bare digit strings and for empty input, parse_size truncated to an
\* integer is size_to_bytes of the same string.
C28_ParseSizeAgrees ==
    (pc = "returned" /\ arg.fn = "parse_size" /\ ConversionInput(arg.raw)) =>
        result[1].whole = size_to_bytes(arg.raw)

---------------------------------------------------------------------------
(* C29 *)

\* the load of the device list or of the bandwidth page was answered
LoadAnswered == pc \in {"load", "bw_collect"} /\ exc' # "WebDriverException"

\* C29: session expiry is detected on any page: when the load of the device
\* list (load_device_rows) or of the bandwidth page
\* (collect_bandwidth_usage) lands on the login surface, the tool logs in
\* again to load that page once more; the run does not fail there.
C29_ExpiryDetectedOnAnyPage ==
    [][(LoadAnswered /\ OnLoginPage(surface')) => pc' = "login"]_vars

---------------------------------------------------------------------------
(* C30 *)

\* the logins one collect_device_details call may perform with `attempts` = k
LoginBudget(k) == IF k >= 1 THEN k - 1 ELSE 0

\* the logins of the call so far, by position: every login() of the call is
\* followed by the next attempt
LoginsWithinAttempts ==
    /\ pc \in {"detail_fetch", "retry_check", "detail_done"} => logins <= attempt - 1
    /\ pc = "login" => (logins <= attempt - 1 /\ attempt < attempts)
    /\ pc = "login_submit" => (logins <= attempt /\ attempt < attempts)
    /\ pc # "idle" => logins <= LoginBudget(attempts)

\* C30: within one collect_device_details call with attempts = k, login() is
\* called at most k-1 times, only between two attempts, only when
\* _on_login_page() is true, and never after the final attempt.
C30_ReloginBounded ==
    /\ []LoginsWithinAttempts
    /\ [][logins' # logins =>
            /\ logins' = logins + 1
            /\ pc = "login"
            /\ caller = "collect_device_details"
            /\ OnLoginPage(surface)
            /\ detail_data = NoDetails
            /\ attempt < attempts]_vars

\* a call with three attempts has logged in twice and is at its last attempt
C30_Witness ==
    /\ pc = "detail_fetch"
    /\ attempts = 3
    /\ attempt = 3
    /\ logins = 2

\* a run over N discovered devices performs at most 1 + N*(k-1) logins, k
\* being the default `attempts` of the calls scrape() makes
C30_RunLoginBound ==
    tool = "devices" =>
        /\ logins <= 1 + Len(device_rows) * (DefaultAttempts - 1)
        /\ devIdx >= 1 => logins <= 1 + devIdx * (DefaultAttempts - 1)
        /\ devIdx = 0 => logins <= 1

===========================================================================
